---------------------------- MODULE Spec2Model ----------------------------
(***************************************************************************)
(* Wishbone bus transactor of the flash test benches (bench/cpp).          *)
(*                                                                         *)
(* One state of the model is the test bench right after a TICK() has       *)
(* returned (or after construction, or after a primitive has returned).    *)
(* One step runs the code of the active primitive from the position it     *)
(* was left at up to and including its next TICK(), or up to its return.   *)
(* The device under test is opaque: on every tick it may drive any         *)
(* o_wb_stall, o_wb_ack and o_wb_data.                                     *)
(***************************************************************************)
EXTENDS Integers, Sequences, FiniteSets, TLC

VARIABLES
    tb,             \* the WBFLASH_TB object and the frame of its active primitive
    m_core,         \* the DUT's outputs as sampled after the last tick
    tw,             \* a second WBFLASH_TB, run beside tb against the same DUT outputs
    seq,            \* the flash command sequencer of the bench (SPIXPRESS_TB)
    mn,              \* main of the bench: where the scenario stands and how it ended
    dut,             \* a memory behind the bus that never stalls, and the reads made of it
    spi             \* the SPI adapter of the bench: SPIXPRESS_TB::tick and what it last did

vars == <<tb, m_core, tw, seq, mn, dut, spi>>

(***************************************************************************)
(* Bounds of the model.  BOMBCOUNT is 2048 in wbflash_tb.h; the code only  *)
(* compares counters with it, so the model runs it scaled down.            *)
(***************************************************************************)
BOMBCOUNT == 4
MaxLen == 2

\* Byte addresses handed to the primitives: a word aligned one and an unaligned one.
Addrs == {0, 7}
\* The values of a data word.
Words == {0, 1}
Lens == 0..MaxLen
\* The strides of a burst.
Incs == {1, 2}
Bufs(n) == [1..n -> Words]

RECURSIVE BitAnd(_, _)
BitAnd(x, y) ==
    IF x = 0 \/ y = 0 THEN 0
    ELSE (x % 2) * (y % 2) + 2 * BitAnd(x \div 2, y \div 2)

(***************************************************************************)
(* The DUT: every response it can give on one tick.                        *)
(***************************************************************************)
DutOutputs == [o_wb_stall : {0, 1}, o_wb_ack : {0, 1}, o_wb_data : Words]

(***************************************************************************)
(* WBFLASH_TB after its constructor.  The g_ fields are history variables: *)
(* they record what the primitive has done and never influence it.         *)
(***************************************************************************)
Constructed ==
    [ pc |-> "idle", op |-> "none",
      m_bomb |-> FALSE,
      i_wb_cyc |-> 0, i_wb_data_stb |-> 0, i_wb_ctrl_stb |-> 0,
      i_wb_we |-> 0, i_wb_addr |-> 0, i_wb_data |-> 0,
      a |-> 0, v |-> 0, len |-> 0, inc |-> 0, buf |-> << >>,
      errcount |-> 0, result |-> 0, s |-> 0, cnt |-> 0, rdidx |-> 0,
      nacks |-> 0, stbcnt |-> 0,
      g_bomb0 |-> FALSE, g_timedout |-> FALSE, g_acks |-> 0,
      g_ackin |-> 0, g_stall |-> 0, g_wait |-> 0, g_req |-> 0 ]

\* A call: the locals of the new frame, the arguments, and fresh history.
Frame(t, op, a, v, len, inc, buf) ==
    [ t EXCEPT !.pc = "entry", !.op = op,
               !.a = a, !.v = v, !.len = len, !.inc = inc, !.buf = buf,
               !.errcount = 0, !.result = 0, !.s = 0, !.cnt = 0, !.rdidx = 0,
               !.nacks = 0, !.stbcnt = 0,
               !.g_bomb0 = t.m_bomb, !.g_timedout = FALSE,
               !.g_acks = 0,
               !.g_ackin = 0, !.g_stall = 0, !.g_wait = 0, !.g_req = 0 ]

\* The primitive is about to call TICK() at the site named pc.
At(t, pc) == [t EXCEPT !.pc = pc]

Running(t) == t.pc \notin {"idle", "checked", "ret", "abort", "test_failure"}

(***************************************************************************)
(* WBFLASH_TB::tick: TESTB::tick() lets the DUT drive its outputs d2, then *)
(* assert(i_wb_cyc || !o_wb_ack).                                          *)
(***************************************************************************)
\* Variant of tick without the assertion.
tick_noassert(t, d2) == t

tick(t, d2) ==
    IF t.i_wb_cyc = 0 /\ d2.o_wb_ack = 1 THEN At(t, "abort") ELSE t

(***************************************************************************)
(* unsigned wb_read(unsigned a)                                            *)
(***************************************************************************)
\* Variant of the release that assigns the bomb instead of latching it.
wb_read_release_clears(t, d, e) ==
    [ t EXCEPT !.errcount = e,
               !.result = d.o_wb_data,
               !.i_wb_cyc = 0, !.i_wb_data_stb = 0, !.i_wb_ctrl_stb = 0,
               !.m_bomb = (e >= BOMBCOUNT) \/ (d.o_wb_ack = 0),
               !.pc = "rd162" ]

\* lines 150-162: sample the result, release the bus, latch the bomb, TICK().
wb_read_release(t, d, e) ==
    [ t EXCEPT !.errcount = e,
               !.result = d.o_wb_data,
               !.i_wb_cyc = 0, !.i_wb_data_stb = 0, !.i_wb_ctrl_stb = 0,
               !.m_bomb = IF e >= BOMBCOUNT THEN TRUE
                          ELSE IF d.o_wb_ack = 0 THEN TRUE ELSE @,
               !.pc = "rd162" ]

\* lines 142-144: while((errcount++ < BOMBCOUNT)&&(!o_wb_ack)) TICK();
wb_read_ackwait(t, d) ==
    LET e == t.errcount + 1 IN
    IF t.errcount < BOMBCOUNT /\ d.o_wb_ack = 0
    THEN [t EXCEPT !.errcount = e, !.pc = "rd143", !.g_wait = @ + 1]
    ELSE wb_read_release(
            [t EXCEPT !.g_acks = IF t.errcount < BOMBCOUNT THEN 1 ELSE @,
                      !.g_ackin = d.o_wb_ack,
                      !.g_timedout = @ \/ (t.errcount >= BOMBCOUNT /\ d.o_wb_ack = 0)],
            d, e)

\* Variant of the stall wait that does not look at stall.
wb_read_stallwait_blind(t, d) ==
    LET e == t.errcount + 1 IN
    IF t.errcount < BOMBCOUNT
    THEN [t EXCEPT !.errcount = e, !.pc = "rd135", !.g_stall = @ + 1]
    ELSE [t EXCEPT !.errcount = e, !.pc = "rd137",
                   !.g_timedout = @ \/ (d.o_wb_stall = 1)]

\* lines 133-137: if (stall) while((errcount++ < BOMBCOUNT)&&(stall)) TICK();  TICK();
wb_read_stallwait(t, d) ==
    LET e == t.errcount + 1 IN
    IF t.errcount < BOMBCOUNT /\ d.o_wb_stall = 1
    THEN [t EXCEPT !.errcount = e, !.pc = "rd135", !.g_stall = @ + 1]
    ELSE [t EXCEPT !.errcount = e, !.pc = "rd137",
                   !.g_timedout = @ \/ (d.o_wb_stall = 1)]

\* Variant of the drain that returns without waiting for stall to fall.
wb_read_drain_nowait(t, d) ==
    IF d.o_wb_ack = 1 THEN At(t, "abort") ELSE At(t, "ret")

\* lines 164-172: assert(!o_wb_ack); while(o_wb_stall) TICK(); return result;
wb_read_drain(t, d) ==
    IF d.o_wb_ack = 1 THEN At(t, "abort")
    ELSE IF d.o_wb_stall = 1 THEN At(t, "rd170")
    ELSE At(t, "ret")

wb_read_go(t, d) ==
    CASE t.pc = "entry" ->
            LET t1 == [t EXCEPT !.i_wb_cyc = 1, !.i_wb_data_stb = 1,
                                !.i_wb_ctrl_stb = 0, !.i_wb_we = 0,
                                !.i_wb_addr = t.a \div 4]
            IN  IF d.o_wb_stall = 1 THEN wb_read_stallwait(t1, d)
                ELSE At(t1, "rd137")
      [] t.pc = "rd135" -> wb_read_stallwait(t, d)
      [] t.pc = "rd137" ->
            wb_read_ackwait([t EXCEPT !.i_wb_data_stb = 0, !.i_wb_ctrl_stb = 0], d)
      [] t.pc = "rd143" -> wb_read_ackwait(t, d)
      [] t.pc = "rd162" -> wb_read_drain(t, d)
      [] t.pc = "rd170" -> wb_read_drain(t, d)
      [] OTHER -> t

(***************************************************************************)
(* unsigned wb_ctrl_read(unsigned a)                                       *)
(***************************************************************************)
\* lines 98-110
wb_ctrl_read_release(t, d, e) ==
    [ t EXCEPT !.errcount = e,
               !.result = d.o_wb_data,
               !.i_wb_cyc = 0, !.i_wb_data_stb = 0, !.i_wb_ctrl_stb = 0,
               !.m_bomb = IF e >= BOMBCOUNT THEN TRUE
                          ELSE IF d.o_wb_ack = 0 THEN TRUE ELSE @,
               !.pc = "crd110" ]

\* lines 90-92
wb_ctrl_read_ackwait(t, d) ==
    LET e == t.errcount + 1 IN
    IF t.errcount < BOMBCOUNT /\ d.o_wb_ack = 0
    THEN [t EXCEPT !.errcount = e, !.pc = "crd91", !.g_wait = @ + 1]
    ELSE wb_ctrl_read_release(
            [t EXCEPT !.g_acks = IF t.errcount < BOMBCOUNT THEN 1 ELSE @,
                      !.g_ackin = d.o_wb_ack,
                      !.g_timedout = @ \/ (t.errcount >= BOMBCOUNT /\ d.o_wb_ack = 0)],
            d, e)

\* lines 81-85
wb_ctrl_read_stallwait(t, d) ==
    LET e == t.errcount + 1 IN
    IF t.errcount < BOMBCOUNT /\ d.o_wb_stall = 1
    THEN [t EXCEPT !.errcount = e, !.pc = "crd83", !.g_stall = @ + 1]
    ELSE [t EXCEPT !.errcount = e, !.pc = "crd85",
                   !.g_timedout = @ \/ (d.o_wb_stall = 1)]

\* lines 112-118
wb_ctrl_read_drain(t, d) ==
    IF d.o_wb_ack = 1 THEN At(t, "abort")
    ELSE IF d.o_wb_stall = 1 THEN At(t, "crd115")
    ELSE At(t, "ret")

wb_ctrl_read_go(t, d) ==
    CASE t.pc = "entry" ->
            LET t1 == [t EXCEPT !.i_wb_cyc = 1, !.i_wb_data_stb = 0,
                                !.i_wb_ctrl_stb = 1, !.i_wb_we = 0,
                                !.i_wb_addr = t.a \div 4]
            IN  IF d.o_wb_stall = 1 THEN wb_ctrl_read_stallwait(t1, d)
                ELSE At(t1, "crd85")
      [] t.pc = "crd83" -> wb_ctrl_read_stallwait(t, d)
      [] t.pc = "crd85" ->
            wb_ctrl_read_ackwait([t EXCEPT !.i_wb_data_stb = 0, !.i_wb_ctrl_stb = 0], d)
      [] t.pc = "crd91" -> wb_ctrl_read_ackwait(t, d)
      [] t.pc = "crd110" -> wb_ctrl_read_drain(t, d)
      [] t.pc = "crd115" -> wb_ctrl_read_drain(t, d)
      [] OTHER -> t

(***************************************************************************)
(* void wb_write(unsigned a, unsigned v)                                   *)
(***************************************************************************)
\* lines 306-315: release the bus, latch the bomb, TICK().
wb_write_release(t, d) ==
    [ t EXCEPT !.i_wb_cyc = 0, !.i_wb_data_stb = 0, !.i_wb_ctrl_stb = 0,
               !.m_bomb = IF t.errcount >= BOMBCOUNT THEN TRUE ELSE @,
               !.pc = "wr315" ]

\* lines 302-304: while((errcount++ < BOMBCOUNT)&&(!o_wb_ack)) TICK();  TICK();
wb_write_ackwait(t, d) ==
    LET e == t.errcount + 1 IN
    IF t.errcount < BOMBCOUNT /\ d.o_wb_ack = 0
    THEN [t EXCEPT !.errcount = e, !.pc = "wr303", !.g_wait = @ + 1]
    ELSE [t EXCEPT !.errcount = e, !.pc = "wr304",
                   !.g_acks = IF t.errcount < BOMBCOUNT THEN 1 ELSE @,
                   !.g_ackin = d.o_wb_ack,
                   !.g_timedout = @ \/ (t.errcount >= BOMBCOUNT /\ d.o_wb_ack = 0)]

\* Variant of the stall wait that drops the strobe while stalled.
wb_write_stallwait_nostb(t, d) ==
    LET e == t.errcount + 1 IN
    IF t.errcount < BOMBCOUNT /\ d.o_wb_stall = 1
    THEN [t EXCEPT !.errcount = e, !.pc = "wr295", !.g_stall = @ + 1,
                   !.i_wb_data_stb = 0]
    ELSE [t EXCEPT !.errcount = e, !.pc = "wr297", !.i_wb_data_stb = 1,
                   !.g_timedout = @ \/ (d.o_wb_stall = 1)]

\* lines 292-297
wb_write_stallwait(t, d) ==
    LET e == t.errcount + 1 IN
    IF t.errcount < BOMBCOUNT /\ d.o_wb_stall = 1
    THEN [t EXCEPT !.errcount = e, !.pc = "wr295", !.g_stall = @ + 1]
    ELSE [t EXCEPT !.errcount = e, !.pc = "wr297",
                   !.g_timedout = @ \/ (d.o_wb_stall = 1)]

\* lines 316-320: assert(!o_wb_ack); while(o_wb_stall) TICK(); assert(!o_wb_stall);
wb_write_drain(t, d) ==
    IF d.o_wb_ack = 1 THEN At(t, "abort")
    ELSE IF d.o_wb_stall = 1 THEN At(t, "wr319")
    ELSE At(t, "ret")

wb_write_go(t, d) ==
    CASE t.pc = "entry" ->
            LET t1 == [t EXCEPT !.i_wb_cyc = 1, !.i_wb_data_stb = 1,
                                !.i_wb_ctrl_stb = 0, !.i_wb_we = 1,
                                !.i_wb_addr = t.a \div 4, !.i_wb_data = t.v]
            IN  IF d.o_wb_stall = 1 THEN wb_write_stallwait(t1, d)
                ELSE At(t1, "wr297")
      [] t.pc = "wr295" -> wb_write_stallwait(t, d)
      [] t.pc = "wr297" ->
            wb_write_ackwait([t EXCEPT !.i_wb_data_stb = 0, !.i_wb_ctrl_stb = 0], d)
      [] t.pc = "wr303" -> wb_write_ackwait(t, d)
      [] t.pc = "wr304" -> wb_write_release(t, d)
      [] t.pc = "wr315" -> wb_write_drain(t, d)
      [] t.pc = "wr319" -> wb_write_drain(t, d)
      [] OTHER -> t

(***************************************************************************)
(* void wb_ctrl_write(unsigned a, unsigned v)                              *)
(***************************************************************************)
\* Variant of the release whose bomb test is off by one.
wb_ctrl_write_release_late(t, d) ==
    [ t EXCEPT !.i_wb_cyc = 0, !.i_wb_data_stb = 0, !.i_wb_ctrl_stb = 0,
               !.m_bomb = IF t.errcount > BOMBCOUNT THEN TRUE ELSE @,
               !.pc = "cwr272" ]

\* lines 263-272
wb_ctrl_write_release(t, d) ==
    [ t EXCEPT !.i_wb_cyc = 0, !.i_wb_ctrl_stb = 0, !.i_wb_data_stb = 0,
               !.m_bomb = IF t.errcount >= BOMBCOUNT THEN TRUE ELSE @,
               !.pc = "cwr272" ]

\* lines 259-261
wb_ctrl_write_ackwait(t, d) ==
    LET e == t.errcount + 1 IN
    IF t.errcount < BOMBCOUNT /\ d.o_wb_ack = 0
    THEN [t EXCEPT !.errcount = e, !.pc = "cwr260", !.g_wait = @ + 1]
    ELSE [t EXCEPT !.errcount = e, !.pc = "cwr261",
                   !.g_acks = IF t.errcount < BOMBCOUNT THEN 1 ELSE @,
                   !.g_ackin = d.o_wb_ack,
                   !.g_timedout = @ \/ (t.errcount >= BOMBCOUNT /\ d.o_wb_ack = 0)]

\* lines 250-255
wb_ctrl_write_stallwait(t, d) ==
    LET e == t.errcount + 1 IN
    IF t.errcount < BOMBCOUNT /\ d.o_wb_stall = 1
    THEN [t EXCEPT !.errcount = e, !.pc = "cwr253", !.g_stall = @ + 1]
    ELSE [t EXCEPT !.errcount = e, !.pc = "cwr255",
                   !.g_timedout = @ \/ (d.o_wb_stall = 1)]

\* lines 273-277
wb_ctrl_write_drain(t, d) ==
    IF d.o_wb_ack = 1 THEN At(t, "abort")
    ELSE IF d.o_wb_stall = 1 THEN At(t, "cwr277")
    ELSE At(t, "ret")

wb_ctrl_write_go(t, d) ==
    CASE t.pc = "entry" ->
            LET t1 == [t EXCEPT !.i_wb_cyc = 1, !.i_wb_data_stb = 0,
                                !.i_wb_ctrl_stb = 1, !.i_wb_we = 1,
                                !.i_wb_addr = t.a \div 4, !.i_wb_data = t.v]
            IN  IF d.o_wb_stall = 1 THEN wb_ctrl_write_stallwait(t1, d)
                ELSE At(t1, "cwr255")
      [] t.pc = "cwr253" -> wb_ctrl_write_stallwait(t, d)
      [] t.pc = "cwr255" ->
            wb_ctrl_write_ackwait([t EXCEPT !.i_wb_ctrl_stb = 0], d)
      [] t.pc = "cwr260" -> wb_ctrl_write_ackwait(t, d)
      [] t.pc = "cwr261" -> wb_ctrl_write_release(t, d)
      [] t.pc = "cwr272" -> wb_ctrl_write_drain(t, d)
      [] t.pc = "cwr277" -> wb_ctrl_write_drain(t, d)
      [] OTHER -> t

(***************************************************************************)
(* void wb_read(unsigned a, int len, unsigned *buf, const int inc=1)       *)
(***************************************************************************)
\* line 177
THISBOMBCOUNT(t) == BOMBCOUNT * t.len

\* lines 210-211 and 219-220: if (o_wb_ack) buf[rdidx++] = o_wb_data;
\* buf holds the len words the caller asked for, buf[0..len-1]; a store at an
\* index past them lands outside the result and only rdidx records it.
wb_read_burst_store(t, d) ==
    IF d.o_wb_ack = 1
    THEN [t EXCEPT !.buf = IF t.rdidx < t.len THEN Append(@, d.o_wb_data) ELSE @,
                   !.rdidx = @ + 1]
    ELSE t

\* lines 223-234: release the bus, latch the bomb, TICK().
wb_read_burst_release(t, d) ==
    [ t EXCEPT !.i_wb_cyc = 0,
               !.m_bomb = IF t.errcount >= THISBOMBCOUNT(t) THEN TRUE
                          ELSE IF d.o_wb_ack = 0 THEN TRUE ELSE @,
               !.pc = "rdv234" ]

\* Variant of the collect loop that stops one word short.
wb_read_burst_collect_short(t, d) ==
    IF t.rdidx < t.len - 1
    THEN IF t.errcount < THISBOMBCOUNT(t)
         THEN [t EXCEPT !.errcount = @ + 1, !.pc = "rdv218"]
         ELSE wb_read_burst_release(
                 [t EXCEPT !.errcount = @ + 1, !.g_timedout = TRUE], d)
    ELSE wb_read_burst_release(t, d)

\* lines 217-221: while((rdidx < len)&&(errcount++ < THISBOMBCOUNT)) { TICK(); ... }
wb_read_burst_collect(t, d) ==
    IF t.rdidx < t.len
    THEN IF t.errcount < THISBOMBCOUNT(t)
         THEN [t EXCEPT !.errcount = @ + 1, !.pc = "rdv218"]
         ELSE wb_read_burst_release(
                 [t EXCEPT !.errcount = @ + 1, !.g_timedout = TRUE], d)
    ELSE wb_read_burst_release(t, d)

\* Variant of the address step that never advances.
wb_read_burst_addr_stuck(addr, inc, s) == addr

\* line 208: i_wb_addr += inc&(s^1);
wb_read_burst_addr(addr, inc, s) == addr + BitAnd(inc, 1 - s)

\* lines 208-215: the rest of the do body after its TICK(), the loop test, and
\* either the next pass (s sampled, TICK()) or the end of the request phase.
wb_read_burst_request(t, d) ==
    LET t1 == wb_read_burst_store(
                 [t EXCEPT !.i_wb_addr = wb_read_burst_addr(@, t.inc, t.s),
                           !.cnt = @ + (1 - t.s)], d)
    IN  IF t1.cnt < t1.len
        THEN IF t1.errcount < THISBOMBCOUNT(t1)
             THEN [t1 EXCEPT !.errcount = @ + 1, !.s = d.o_wb_stall, !.pc = "rdv207"]
             ELSE wb_read_burst_collect(
                     [t1 EXCEPT !.errcount = @ + 1, !.g_timedout = TRUE,
                                !.i_wb_data_stb = 0, !.i_wb_ctrl_stb = 0], d)
        ELSE wb_read_burst_collect(
                [t1 EXCEPT !.i_wb_data_stb = 0, !.i_wb_ctrl_stb = 0], d)

\* lines 188-207: the early return, or the first pass of the do loop.
wb_read_burst_start(t, d) ==
    IF t.errcount >= BOMBCOUNT
    THEN [t EXCEPT !.m_bomb = TRUE, !.pc = "ret"]
    ELSE [t EXCEPT !.errcount = 0,
                   !.i_wb_cyc = 1, !.i_wb_data_stb = 1, !.i_wb_ctrl_stb = 0,
                   !.i_wb_we = 0, !.i_wb_addr = t.a \div 4,
                   !.rdidx = 0, !.cnt = 0,
                   !.s = d.o_wb_stall, !.pc = "rdv207"]

\* lines 185-186: while((errcount++ < BOMBCOUNT)&&(o_wb_stall)) TICK();
wb_read_burst_stallwait(t, d) ==
    LET e == t.errcount + 1 IN
    IF t.errcount < BOMBCOUNT /\ d.o_wb_stall = 1
    THEN [t EXCEPT !.errcount = e, !.pc = "rdv186"]
    ELSE wb_read_burst_start(
            [t EXCEPT !.errcount = e,
                      !.g_timedout = @ \/ (d.o_wb_stall = 1)], d)

wb_read_burst_go(t, d) ==
    CASE t.pc = "entry" ->
            wb_read_burst_stallwait(
                [t EXCEPT !.i_wb_cyc = 0, !.i_wb_data_stb = 1, !.i_wb_ctrl_stb = 0], d)
      [] t.pc = "rdv186" -> wb_read_burst_stallwait(t, d)
      [] t.pc = "rdv207" -> wb_read_burst_request(t, d)
      [] t.pc = "rdv218" -> wb_read_burst_collect(wb_read_burst_store(t, d), d)
      [] t.pc = "rdv234" ->
            IF d.o_wb_ack = 1 THEN At(t, "abort") ELSE At(t, "ret")
      [] OTHER -> t

(***************************************************************************)
(* void wb_write(unsigned a, unsigned int ln, unsigned *buf, const int inc) *)
(***************************************************************************)
\* Variant of the count that misses the acknowledges of the posting phase.
wb_write_burst_count_deaf(t, d) == t

\* lines 340-341, 346: if (o_wb_ack) nacks++;
wb_write_burst_count(t, d) ==
    IF d.o_wb_ack = 1 THEN [t EXCEPT !.nacks = @ + 1] ELSE t

\* lines 364-374: release the bus, latch the bomb, TICK().
wb_write_burst_release(t, d) ==
    [ t EXCEPT !.i_wb_cyc = 0, !.i_wb_data_stb = 0, !.i_wb_ctrl_stb = 0,
               !.m_bomb = IF t.errcount >= BOMBCOUNT THEN TRUE ELSE @,
               !.pc = "wrv374" ]

\* lines 356-362: while((nacks < ln)&&(errcount++ < BOMBCOUNT)) { TICK(); ... }
wb_write_burst_ackwait(t, d) ==
    IF t.nacks < t.len
    THEN IF t.errcount < BOMBCOUNT
         THEN [t EXCEPT !.errcount = @ + 1, !.pc = "wrv357"]
         ELSE wb_write_burst_release(
                 [t EXCEPT !.errcount = @ + 1, !.g_timedout = TRUE], d)
    ELSE wb_write_burst_release(t, d)

\* lines 338-345: the per-word stall wait, then the tick that posts the word.
wb_write_burst_stallwait(t, d) ==
    LET e == t.errcount + 1 IN
    IF t.errcount < BOMBCOUNT /\ d.o_wb_stall = 1
    THEN [t EXCEPT !.errcount = e, !.pc = "wrv339"]
    ELSE [t EXCEPT !.errcount = e, !.pc = "wrv345",
                   !.g_timedout = @ \/ (d.o_wb_stall = 1)]

\* Variant of the for loop that raises the control strobe with the data
\* strobe once the words are posted.
wb_write_burst_for_both(t, d) ==
    IF t.stbcnt < t.len
    THEN wb_write_burst_stallwait(
            [t EXCEPT !.i_wb_data = t.buf[t.stbcnt + 1], !.errcount = 0], d)
    ELSE wb_write_burst_ackwait(
            [t EXCEPT !.i_wb_data_stb = 1, !.i_wb_ctrl_stb = 1, !.errcount = 0], d)

\* lines 333-336 and 352-355: the for loop's test; the next word, or the end
\* of the posting phase.
wb_write_burst_for(t, d) ==
    IF t.stbcnt < t.len
    THEN wb_write_burst_stallwait(
            [t EXCEPT !.i_wb_data = t.buf[t.stbcnt + 1], !.errcount = 0], d)
    ELSE wb_write_burst_ackwait(
            [t EXCEPT !.i_wb_data_stb = 1, !.i_wb_ctrl_stb = 0, !.errcount = 0], d)

\* lines 375-378
wb_write_burst_drain(t, d) ==
    IF d.o_wb_ack = 1 THEN At(t, "abort")
    ELSE IF d.o_wb_stall = 1 THEN At(t, "wrv378")
    ELSE At(t, "ret")

wb_write_burst_go(t, d) ==
    CASE t.pc = "entry" ->
            wb_write_burst_for(
                [t EXCEPT !.i_wb_cyc = 1, !.i_wb_data_stb = 1, !.i_wb_ctrl_stb = 0,
                          !.i_wb_we = 1, !.i_wb_addr = t.a \div 4], d)
      [] t.pc = "wrv339" ->
            wb_write_burst_stallwait(wb_write_burst_count(t, d), d)
      [] t.pc = "wrv345" ->
            LET t1 == wb_write_burst_count(t, d)
            IN  wb_write_burst_for(
                    [t1 EXCEPT !.i_wb_addr = @ + t.inc, !.stbcnt = @ + 1], d)
      [] t.pc = "wrv357" ->
            wb_write_burst_ackwait(
                IF d.o_wb_ack = 1
                THEN [t EXCEPT !.nacks = @ + 1, !.errcount = 0]
                ELSE t, d)
      [] t.pc = "wrv374" -> wb_write_burst_drain(t, d)
      [] t.pc = "wrv378" -> wb_write_burst_drain(t, d)
      [] OTHER -> t

(***************************************************************************)
(* The flash command sequencer: flerase, flpage_program and flprogram of   *)
(* SPIXPRESS_TB in dualflexpress_tb.cpp (labels carry its line numbers)    *)
(* and in spixpress_tb.cpp, which has the same code without take_offline   *)
(* and place_online and without CFG_USERMODE on the data bytes.  One step  *)
(* is one statement: a cfg_write, a cfg_read, a tick, a call or the loop   *)
(* test of flprogram.  The page is 256 bytes in the benches; the code only *)
(* rounds addresses down to a multiple of it, so the model runs it scaled  *)
(* down.                                                                   *)
(***************************************************************************)
PGLENB == 4
\* The longest program request.
MaxProg == 9
\* The most polls of one operation that find the flash busy.
MaxBusy == 1

CFG_USERMODE == 4096
CFG_DSPEED == 1024
CFG_WEDIR == 512
CFG_USER_CS_n == 256

F_RESET == CFG_USERMODE + 255
F_PP == CFG_USERMODE + 2
F_RDSR == CFG_USERMODE + 5
F_WREN == CFG_USERMODE + 6
F_SE == CFG_USERMODE + 216
F_END == CFG_USERMODE + CFG_USER_CS_n
F_READID == CFG_USERMODE + 159
DUAL_IO_READ == CFG_USERMODE + 187

\* #define PAGEOF(A) ((A)&(-1<< 8))
PAGEOF(A) == A - (A % PGLENB)

Benches == {"dual", "spix"}
\* Sector addresses handed to flerase: 0x000000 and 0x010203.
SectorAddrs == {0, 66051}
\* Start addresses of a program request, around the first page boundary,
\* and 0x010203.
ProgAddrs == {0, 1, PGLENB - 1, PGLENB, PGLENB + 1, 66051}
\* Payloads: byte i of the request is i+1, or every byte is the value of
\* the PP opcode.
ProgBufs(n) == { [i \in 1..n |-> i], [i \in 1..n |-> 2] }
\* What a status poll can return: busy (bit 0 set), or ready with another bit set.
StatusWords == {1, 2}
\* What a read of the device ID can return: the byte is in the low 8 bits.
IdWords == {0, 1, 258}

SeqIdle ==
    [ pc |-> "idle", op |-> "none", bench |-> "dual", stack |-> << >>,
      sectoraddr |-> 0, addr |-> 0, ln |-> 0, buf |-> << >>,
      start |-> 0, wlen |-> 0,
      p_addr |-> 0, p_ln |-> 0, p_off |-> 0, i |-> 0, r |-> 0,
      log |-> << >>, calls |-> << >>, busy |-> 0 ]

\* The values cfg_write hands over carry the byte in their low 8 bits; the
\* dual bench sets CFG_USERMODE on them, the single-line bench does not.
UserByte(q, b) == IF q.bench = "dual" THEN CFG_USERMODE + (b % 256) ELSE b % 256

\* assert((i_wb_cyc)||(!o_wb_ack)) in the tick of a control-port call fails.
seq_abort(q) == [q EXCEPT !.pc = "abort"]

\* return from a routine of the sequencer to the statement after its call.
seq_pop(q) == [q EXCEPT !.pc = Head(q.stack), !.stack = Tail(q.stack)]

\* a call of a routine of the sequencer.
seq_call(q, f, back) == { [q EXCEPT !.pc = f, !.stack = <<back>> \o @] }

\* cfg_write(v): one word written to the control port; next names the
\* statement that follows.
cfg_write(q, v, next) ==
    { [q EXCEPT !.log = Append(@, <<"w", v>>), !.pc = next], seq_abort(q) }

\* cfg_write(v) as the last statement of a routine.
cfg_write_ret(q, v) ==
    { seq_pop([q EXCEPT !.log = Append(@, <<"w", v>>)]), seq_abort(q) }

\* cfg_read(): one word read from the control port, whatever the DUT returns:
\* a byte of the device ID in flreadid, a status word otherwise.
cfg_read(q) ==
    IF q.op = "flreadid" THEN IdWords
    ELSE { v \in StatusWords : v % 2 = 0 \/ q.busy < MaxBusy }

\* tick();
seq_tick(q, next) == { [q EXCEPT !.pc = next], seq_abort(q) }

\* Variant of take_offline with a single reset.
take_offline_once(q) ==
    CASE q.pc = "to163" -> cfg_write(q, F_END, "to164")
      [] q.pc = "to164" -> cfg_write(q, F_RESET, "to166")
      [] q.pc = "to166" -> cfg_write_ret(q, F_END)

\* void take_offline(void), lines 162-167
take_offline(q) ==
    CASE q.pc = "to163" -> cfg_write(q, F_END, "to164")
      [] q.pc = "to164" -> cfg_write(q, F_RESET, "to165")
      [] q.pc = "to165" -> cfg_write(q, F_RESET, "to166")
      [] q.pc = "to166" -> cfg_write_ret(q, F_END)

\* void place_online(void), lines 169-182
place_online(q) ==
    CASE q.pc = "po171" -> cfg_write(q, DUAL_IO_READ, "po173")
      [] q.pc = "po173" -> cfg_write(q, CFG_USERMODE + CFG_DSPEED + CFG_WEDIR, "po174")
      [] q.pc = "po174" -> cfg_write(q, CFG_USERMODE + CFG_DSPEED + CFG_WEDIR, "po175")
      [] q.pc = "po175" -> cfg_write(q, CFG_USERMODE + CFG_DSPEED + CFG_WEDIR, "po177")
      [] q.pc = "po177" ->
            cfg_write(q, CFG_USERMODE + CFG_DSPEED + CFG_WEDIR + 160, "po179")
      [] q.pc = "po179" -> cfg_write(q, CFG_USERMODE + CFG_DSPEED, "po181")
      [] q.pc = "po181" -> cfg_write_ret(q, 0)

\* Variant of the packing that does not shift what was read before.
flreadid_pack_noshift(r, v) == r + (v % 256)

\* lines 190-192: r = (r<<8) | (cfg_read() & 0x0ff).  r holds at most three
\* bytes before the shift, so the 32 bits of an unsigned lose none of them.
flreadid_pack(r, v) == (r * 256) + (v % 256)

\* the statement cfg_write(CFG_USERMODE); r = ... cfg_read() ...; of flreadid
\* as two steps, at rd and at next.
flreadid_read(q, next) ==
    { [q EXCEPT !.r = flreadid_pack(q.r, v),
                !.log = Append(@, <<"r", v>>),
                !.pc = next] : v \in cfg_read(q) } \cup { seq_abort(q) }

\* unsigned flreadid(void), lines 184-196; line 189 starts from r = 0 as
\* r = cfg_read() & 0x0ff.
flreadid_go(q) ==
    CASE q.pc = "id187" -> cfg_write([q EXCEPT !.r = 0], F_READID, "id189")
      [] q.pc = "id189" -> cfg_write(q, UserByte(q, 0), "id189r")
      [] q.pc = "id189r" -> flreadid_read(q, "id190")
      [] q.pc = "id190" -> cfg_write(q, UserByte(q, 0), "id190r")
      [] q.pc = "id190r" -> flreadid_read(q, "id191")
      [] q.pc = "id191" -> cfg_write(q, UserByte(q, 0), "id191r")
      [] q.pc = "id191r" -> flreadid_read(q, "id192")
      [] q.pc = "id192" -> cfg_write(q, UserByte(q, 0), "id192r")
      [] q.pc = "id192r" -> flreadid_read(q, "id193")
      [] q.pc = "id193" -> cfg_write_ret(q, F_END)

\* Variant of flwait that polls once and does not look at the busy bit.
flwait_once(q) ==
    CASE q.pc = "fw212" -> cfg_write(q, F_RDSR, "fw214")
      [] q.pc = "fw214" -> cfg_write(q, UserByte(q, 0), "fw215")
      [] q.pc = "fw215" ->
            { [q EXCEPT !.r = v,
                        !.log = Append(@, <<"r", v>>),
                        !.busy = @ + (v % 2),
                        !.pc = "fw217"]
                 : v \in cfg_read(q) } \cup { seq_abort(q) }
      [] q.pc = "fw217" -> cfg_write_ret(q, F_END)

\* void flwait(void), lines 208-219:
\* cfg_write(F_RDSR); do { cfg_write(CFG_USERMODE); r = cfg_read(); } while (r & 1);
\* cfg_write(F_END);
flwait(q) ==
    CASE q.pc = "fw212" -> cfg_write(q, F_RDSR, "fw214")
      [] q.pc = "fw214" -> cfg_write(q, UserByte(q, 0), "fw215")
      [] q.pc = "fw215" ->
            { [q EXCEPT !.r = v,
                        !.log = Append(@, <<"r", v>>),
                        !.busy = @ + (v % 2),
                        !.pc = IF v % 2 = 1 THEN "fw214" ELSE "fw217"]
                 : v \in cfg_read(q) } \cup { seq_abort(q) }
      [] q.pc = "fw217" -> cfg_write_ret(q, F_END)

\* Variant of the address bytes with the least significant one first.
addr_byte_lsb(a, k) == (a \div (256 ^ (2 - k))) % 256

\* lines 229-231 and 252-254: (addr >> 16)&0x0ff, (addr >> 8)&0x0ff,
\* (addr)&0x0ff, for k = 2, 1, 0.
addr_byte(a, k) == (a \div (256 ^ k)) % 256

\* void flerase(unsigned sectoraddr), lines 221-237
flerase_go(q) ==
    CASE q.pc = "fe222" -> seq_call(q, "to163", "fe224")
      [] q.pc = "fe224" -> cfg_write(q, F_END, "fe225")
      [] q.pc = "fe225" -> cfg_write(q, F_WREN, "fe226")
      [] q.pc = "fe226" -> cfg_write(q, F_END, "fe228")
      [] q.pc = "fe228" -> cfg_write(q, F_SE, "fe229")
      [] q.pc = "fe229" -> cfg_write(q, UserByte(q, addr_byte(q.sectoraddr, 2)), "fe230")
      [] q.pc = "fe230" -> cfg_write(q, UserByte(q, addr_byte(q.sectoraddr, 1)), "fe231")
      [] q.pc = "fe231" -> cfg_write(q, UserByte(q, addr_byte(q.sectoraddr, 0)), "fe232")
      [] q.pc = "fe232" -> cfg_write(q, F_END, "fe234")
      [] q.pc = "fe234" -> seq_call(q, "fw212", "fe236")
      [] q.pc = "fe236" ->
            IF q.bench = "dual" THEN seq_call(q, "po171", "fe237")
            ELSE { seq_pop(q) }
      [] q.pc = "fe237" -> { seq_pop(q) }

\* buf[i] of flpage_program: byte i of the block its caller pointed it at;
\* a read past the ln bytes of the request finds whatever lies there.
page_byte(q) ==
    IF q.p_off + q.i + 1 \in 1..Len(q.buf)
    THEN { q.buf[q.p_off + q.i + 1] }
    ELSE { 0, 255 }

\* void flpage_program(int addr, int ln, const char *buf), lines 239-266
flpage_program_go(q) ==
    CASE q.pc = "pp240" -> seq_call(q, "fw212", "pp243")
      [] q.pc = "pp243" -> seq_tick(q, "pp245")
      [] q.pc = "pp245" -> cfg_write(q, F_END, "pp246")
      [] q.pc = "pp246" -> cfg_write(q, F_WREN, "pp247")
      [] q.pc = "pp247" -> cfg_write(q, F_END, "pp249")
      [] q.pc = "pp249" -> seq_tick(q, "pp251")
      [] q.pc = "pp251" -> cfg_write(q, F_PP, "pp252")
      [] q.pc = "pp252" -> cfg_write(q, UserByte(q, addr_byte(q.p_addr, 2)), "pp253")
      [] q.pc = "pp253" -> cfg_write(q, UserByte(q, addr_byte(q.p_addr, 1)), "pp254")
      [] q.pc = "pp254" -> cfg_write(q, UserByte(q, addr_byte(q.p_addr, 0)), "pp257")
      [] q.pc = "pp257" ->
            IF q.i < q.p_ln
            THEN UNION { cfg_write([q EXCEPT !.i = @ + 1], UserByte(q, b), "pp257")
                            : b \in page_byte(q) }
            ELSE cfg_write(q, F_END, "pp261")
      [] q.pc = "pp261" -> seq_tick(q, "pp263")
      [] q.pc = "pp263" -> seq_call(q, "fw212", "pp265")
      [] q.pc = "pp265" -> { seq_pop(q), seq_abort(q) }

\* the call flpage_program(addr, ln, &buf[off]): its arguments, its loop
\* counter, and the record of the call.
flpage_program_call(q, addr, ln, off, back) ==
    [ q EXCEPT !.p_addr = addr, !.p_ln = ln, !.p_off = off, !.i = 0,
               !.calls = Append(@, <<addr, ln, off>>),
               !.pc = "pp240", !.stack = <<back>> \o @ ]

\* Variant of the chunk length that never splits.
flprogram_wlen_whole(addr, ln, start) == addr + ln - start

\* lines 276-279: the length of the next chunk.
flprogram_wlen(addr, ln, start) ==
    IF PAGEOF(addr + ln - 1) # PAGEOF(start)
    THEN PAGEOF(start + PGLENB) - start
    ELSE addr + ln - start

\* Variant of the loop test that goes on while start <= addr+ln.
flprogram_more_incl(q) == q.start <= q.addr + q.ln

\* line 273: while(start < addr + ln)
flprogram_more(q) == q.start < q.addr + q.ln

\* Variant of the advance that does not round down to the page.
flprogram_next_unaligned(start) == start + PGLENB

\* line 282: start = PAGEOF(start+PGLENB);
flprogram_next(start) == PAGEOF(start + PGLENB)

\* Variant of flprogram that goes from its loop to place_online at once.
flprogram_go_nowait(q) ==
    CASE q.pc = "fp271" -> seq_call(q, "to163", "fp273")
      [] q.pc = "fp273" ->
            IF flprogram_more(q)
            THEN LET wlen == flprogram_wlen(q.addr, q.ln, q.start) IN
                 { flpage_program_call([q EXCEPT !.wlen = wlen],
                                       q.start, wlen, q.start - q.addr, "fp282") }
            ELSE { [q EXCEPT !.pc = "fp286"] }
      [] q.pc = "fp282" ->
            { [q EXCEPT !.start = flprogram_next(q.start), !.pc = "fp273"] }
      [] q.pc = "fp286" ->
            IF q.bench = "dual" THEN seq_call(q, "po171", "fp287")
            ELSE { seq_pop(q) }
      [] q.pc = "fp287" -> { seq_pop(q) }

\* void flprogram(int addr, int ln, const char *buf), lines 268-287
flprogram_go(q) ==
    CASE q.pc = "fp271" -> seq_call(q, "to163", "fp273")
      [] q.pc = "fp273" ->
            IF flprogram_more(q)
            THEN LET wlen == flprogram_wlen(q.addr, q.ln, q.start) IN
                 { flpage_program_call([q EXCEPT !.wlen = wlen],
                                       q.start, wlen, q.start - q.addr, "fp282") }
            ELSE seq_call(q, "fw212", "fp286")
      [] q.pc = "fp282" ->
            { [q EXCEPT !.start = flprogram_next(q.start), !.pc = "fp273"] }
      [] q.pc = "fp286" ->
            IF q.bench = "dual" THEN seq_call(q, "po171", "fp287")
            ELSE { seq_pop(q) }
      [] q.pc = "fp287" -> { seq_pop(q) }

\* The statement at q.pc, by the routine it belongs to.
seq_go(q) ==
    CASE q.pc \in {"to163", "to164", "to165", "to166"} -> take_offline(q)
      [] q.pc \in {"po171", "po173", "po174", "po175", "po177", "po179", "po181"} ->
            place_online(q)
      [] q.pc \in {"fw212", "fw214", "fw215", "fw217"} -> flwait(q)
      [] q.pc \in {"fe222", "fe224", "fe225", "fe226", "fe228", "fe229", "fe230",
                   "fe231", "fe232", "fe234", "fe236", "fe237"} -> flerase_go(q)
      [] q.pc \in {"pp240", "pp243", "pp245", "pp246", "pp247", "pp249", "pp251",
                   "pp252", "pp253", "pp254", "pp257", "pp261", "pp263", "pp265"} ->
            flpage_program_go(q)
      [] q.pc \in {"fp271", "fp273", "fp282", "fp286", "fp287"} -> flprogram_go(q)
      [] q.pc \in {"id187", "id189", "id189r", "id190", "id190r", "id191",
                   "id191r", "id192", "id192r", "id193"} -> flreadid_go(q)
      [] OTHER -> { q }

SeqRunning(q) == q.pc \notin {"idle", "done", "abort"}

(***************************************************************************)
(* main of dualflexpress_tb.cpp and of spixpress_tb.cpp: the script of the *)
(* scenario.  A step is a statement of main.  What the test bench and the  *)
(* DUT do inside a call is reduced to what main can see of it: the call    *)
(* returns, with or without a fault latched in the transactor, or an       *)
(* assertion of tick() stops the program; a comparison passes or fails.    *)
(* The loops of 1000 words and of NPAGES pages run scaled down.            *)
(***************************************************************************)
\* The words of the single-read loop: 1000 in the benches.
MaxIter == 2
\* The pages of the sector: 256 in the benches.
NPAGES == 2

EXIT_SUCCESS == 0
EXIT_FAILURE == 1
\* The status of a program ended by abort(): 128 + SIGABRT.
EXIT_ABORT == 134

MainStart ==
    [ pc |-> "start", bench |-> "dual", i |-> 0, p |-> 0,
      fault |-> FALSE, failed |-> FALSE, out |-> "", status |-> -1 ]

\* assert(...) fails: abort() ends the program, nothing more is printed.
main_abort(m) == [m EXCEPT !.pc = "aborted", !.status = EXIT_ABORT]

\* a call on tb: it returns, having latched a fault of the transactor or
\* not, or the assertion of a tick stops the program.
main_call(m, next) ==
    { [m EXCEPT !.pc = next], [m EXCEPT !.pc = next, !.fault = TRUE],
      main_abort(m) }

\* tb->tick();
main_tb_tick(m, next) == { [m EXCEPT !.pc = next], main_abort(m) }

\* if (<mismatch>) goto test_failure;
main_check(m, next) ==
    { [m EXCEPT !.pc = next], [m EXCEPT !.pc = "tf450", !.failed = TRUE, !.i = 0] }

\* assert(<cross-check>);
main_assert(m, next) ==
    { [m EXCEPT !.pc = next], [main_abort(m) EXCEPT !.failed = TRUE] }

\* if (tb->bombed()) goto test_failure;  bombed() returns the m_bomb of
\* SPIXPRESS_TB, which nothing ever writes.
main_if_bombed(m, next) ==
    { [m EXCEPT !.pc = IF b THEN "tf450" ELSE next, !.i = IF b THEN 0 ELSE @]
        : b \in BOOLEAN }

main_go(m) ==
    CASE m.pc = "start" ->
            { [m EXCEPT !.bench = b, !.pc = "m303"] : b \in Benches }
      [] m.pc = "m303" ->
            main_tb_tick(m, IF m.bench = "dual" THEN "m304" ELSE "m308")
      \* while(tb->m_core->o_wb_stall) tb->tick();
      [] m.pc = "m304" -> main_tb_tick(m, "m304") \cup { [m EXCEPT !.pc = "m308"] }
      [] m.pc = "m308" -> main_call(m, "m310")
      [] m.pc = "m310" -> main_check(m, "m313")
      [] m.pc = "m313" -> main_tb_tick(m, "m314")
      [] m.pc = "m314" -> main_if_bombed([m EXCEPT !.i = 0], "m317")
      \* for(int i=0; (i<1000)&&(!tb->bombed()); i++)
      [] m.pc = "m317" ->
            IF m.i < MaxIter
            THEN { [m EXCEPT !.pc = IF b THEN "m334" ELSE "m320"] : b \in BOOLEAN }
            ELSE { [m EXCEPT !.pc = "m334"] }
      [] m.pc = "m320" -> main_call(m, "m322")
      [] m.pc = "m322" ->
            { [m EXCEPT !.pc = "m317", !.i = @ + 1],
              [m EXCEPT !.pc = "tf450", !.failed = TRUE, !.i = 0] }
      [] m.pc = "m334" -> main_call(m, "m335")
      [] m.pc = "m335" -> main_if_bombed(m, "m337")
      [] m.pc = "m337" -> main_check(m, "m343")
      [] m.pc = "m343" ->
            main_if_bombed(m, IF m.bench = "dual" THEN "m347" ELSE "m350")
      [] m.pc = "m347" -> main_call(m, "m350")
      [] m.pc = "m350" -> main_call(m, "m351")
      [] m.pc = "m351" -> main_assert(m, "m352")
      [] m.pc = "m352" -> main_call(m, "m354")
      [] m.pc = "m354" -> main_assert(m, "m368")
      [] m.pc = "m368" -> main_call(m, "m371")
      [] m.pc = "m371" -> main_check(m, "m379")
      [] m.pc = "m379" -> main_check(m, "m382")
      [] m.pc = "m382" -> main_check(m, "m387")
      [] m.pc = "m387" -> main_call(m, "m387c")
      [] m.pc = "m387c" -> main_check(m, "m390")
      [] m.pc = "m390" -> main_call(m, "m390c")
      [] m.pc = "m390c" -> main_check(m, "m405")
      [] m.pc = "m405" -> main_call(m, "m408")
      [] m.pc = "m408" -> main_call(m, "m408c")
      [] m.pc = "m408c" -> main_check(m, "m418")
      \* assert(RDBUFSZ == fread(rdbuf, sizeof(unsigned), RDBUFSZ, fp));
      [] m.pc = "m418" ->
            { [m EXCEPT !.pc = "m426", !.p = 0], main_abort(m) }
      [] m.pc = "m426" ->
            { [m EXCEPT !.pc = IF m.p < NPAGES THEN "m429" ELSE "m446"] }
      [] m.pc = "m429" -> main_call(m, "m434")
      [] m.pc = "m434" ->
            { [m EXCEPT !.pc = "m426", !.p = @ + 1],
              [m EXCEPT !.pc = "tf450", !.failed = TRUE, !.i = 0] }
      [] m.pc = "m446" ->
            { [m EXCEPT !.pc = "exited", !.out = "SUCCESS!!", !.status = EXIT_SUCCESS] }
      \* test_failure: for(int i=0; i<8; i++) tb->tick();
      [] m.pc = "tf450" ->
            IF m.i < 8 THEN main_tb_tick([m EXCEPT !.i = @ + 1], "tf450")
            ELSE { [m EXCEPT !.pc = "exited", !.out = "TEST FAILED",
                             !.status = EXIT_FAILURE] }
      [] OTHER -> { m }

(***************************************************************************)
(* Running a primitive: from where it stands to its next TICK() or return. *)
(***************************************************************************)
go(t, d) ==
    CASE t.op = "wb_read" -> wb_read_go(t, d)
      [] t.op = "wb_ctrl_read" -> wb_ctrl_read_go(t, d)
      [] t.op = "wb_write" -> wb_write_go(t, d)
      [] t.op = "wb_ctrl_write" -> wb_ctrl_write_go(t, d)
      [] t.op = "wb_read_burst" -> wb_read_burst_go(t, d)
      [] t.op = "wb_write_burst" -> wb_write_burst_go(t, d)
      [] OTHER -> t

\* History of a tick: g_req counts the ticks of the call on which a strobe is
\* high while the DUT, by its outputs d before the tick, is not stalled.
Presented(t, d) ==
    IF (t.i_wb_data_stb = 1 \/ t.i_wb_ctrl_stb = 1) /\ d.o_wb_stall = 0
    THEN [t EXCEPT !.g_req = @ + 1]
    ELSE t

\* The step of one test bench: its code up to the next TICK(), and that tick
\* with the DUT response d2.
Step(t, d, d2) ==
    LET t1 == go(t, d) IN
    IF Running(t1) THEN tick(Presented(t1, d), d2) ELSE t1

(***************************************************************************)
(* SPIXPRESS_TB::tick of the two benches: the adapter between the DUT's    *)
(* SPI pins and the flash model, run at the start of every tick, before    *)
(* the DUT is evaluated.  The flash model is opaque: its shift function    *)
(* returns any two-bit value.                                              *)
(***************************************************************************)
SpiBenches == {"spixpress", "dualflexpress"}
FlashOutputs == 0..3

\* The SPI pins the DUT of bench b can drive: spixpress has the one line
\* o_spi_mosi and no mode pins, dualflexpress o_dspi_dat and o_dspi_mod.
\* The chip select goes to the flash model as the DUT drives it and decides
\* nothing in the adapter; it is left out.
SpiOutputs(b) ==
    [ sck : {0, 1},
      dat : IF b = "spixpress" THEN {0, 1} ELSE 0..3,
      mod : IF b = "spixpress" THEN {0} ELSE 0..3 ]

\* The pins after reset.
SpiReset == [sck |-> 0, dat |-> 0, mod |-> 0]

\* No bench constructed.  g_prev, g_outs and g_flash are history: the SCK
\* sampled one tick before the last, the pins as the
\* last tick found them, and what the flash model returned to its
\* clock-high call.
SpiNone ==
    [ bench |-> "none", lastsck |-> 0, outs |-> SpiReset,
      i_dat |-> 0, calls |-> << >>,
      ticks |-> 0, g_prev |-> 0, g_outs |-> SpiReset, g_flash |-> 0 ]

\* (*m_flash)(cs_n, sck, dat): the clock and data arguments of one call of
\* the flash model.
FlashCall(o, sck) == <<sck, o.dat>>

\* Variant of the test that clocks the flash low on every tick.
flash_clock_low_always(lastsck) == TRUE

\* if (lastsck) ...; if (m_flash_last_sck) ...
flash_clock_low(lastsck) == lastsck # 0

\* The calls of the flash model in one tick.
flash_calls(o, lastsck) ==
    (IF flash_clock_low(lastsck) THEN <<FlashCall(o, 0)>> ELSE << >>)
        \o <<FlashCall(o, 1)>>

\* i_spi_miso = ((*m_flash)(...)&2)?1:0;
spi_miso(f) == IF BitAnd(f, 2) # 0 THEN 1 ELSE 0

\* Variant of the routing that always hands the flash model's output on.
dspi_route_flash(mod, idspi, dat) == idspi

\* dualflexpress_tb.cpp lines 126-134: the routing by o_dspi_mod.
dspi_route(mod, idspi, dat) ==
    IF BitAnd(mod, 2) # 0
    THEN IF BitAnd(mod, 1) # 0 THEN idspi ELSE dat
    ELSE BitAnd(idspi, 2) + BitAnd(dat, 1)

\* The adapter's part of tick(), with f the flash model's answer to the
\* clock-high call, and the DUT's pins o2 after PARENT::tick().
spi_tick_go(p, f, o2) ==
    [ p EXCEPT !.calls = flash_calls(p.outs, p.lastsck),
               !.i_dat = IF p.bench = "spixpress" THEN spi_miso(f)
                         ELSE dspi_route(p.outs.mod, f, p.outs.dat),
               !.lastsck = p.outs.sck,
               !.outs = o2,
               !.ticks = IF @ < 2 THEN @ + 1 ELSE @,
               !.g_prev = p.g_outs.sck, !.g_outs = p.outs, !.g_flash = f ]

(***************************************************************************)
(* A memory behind the data port: it never stalls, accepts the request of  *)
(* every tick on which cycle and data strobe are high, and acknowledges    *)
(* the accepted requests in order, each lat ticks after the tick that      *)
(* accepted it, for one tick, with the word at the requested word address. *)
(* Without an acknowledge its data lines hold anything.                    *)
(***************************************************************************)
\* The slowest memory: two ticks slower than a single read waits.
LatencyMax == BOMBCOUNT + 2
NoRequest == 0 - 1
\* The word the memory holds at word address w; no word is a value the idle
\* data lines take.
Mem(w) == w + 2

\* No memory attached and no read made.
DutIdle ==
    [ phase |-> "idle", lat |-> 0, pipe |-> << >>,
      a |-> 0, n |-> 0, burst |-> << >>, single |-> << >> ]

\* The outputs of a DUT that has just been attached.
IdealQuiet == [o_wb_stall |-> 0, o_wb_ack |-> 0, o_wb_data |-> 0]

\* The request the memory accepts on a tick with the bench's inputs t.
IdealRequest(t) ==
    IF t.i_wb_cyc = 1 /\ t.i_wb_data_stb = 1 THEN t.i_wb_addr ELSE NoRequest

\* The requests in the memory on this tick, the youngest first.
IdealLine(u, t) == <<IdealRequest(t)>> \o u.pipe

\* What the memory drives after the tick; x is on the idle data lines.
IdealOut(u, t, x) ==
    LET r == IdealLine(u, t)[u.lat + 1] IN
    [ o_wb_stall |-> 0,
      o_wb_ack |-> IF r = NoRequest THEN 0 ELSE 1,
      o_wb_data |-> IF r = NoRequest THEN x ELSE Mem(r) ]

\* The requests still waiting after the tick.
IdealPipe(u, t) == SubSeq(IdealLine(u, t), 1, u.lat)

Init ==
    /\ tb = Constructed
    /\ tw = Constructed
    /\ seq = SeqIdle
    /\ mn = MainStart
    /\ dut = DutIdle
    /\ spi = SpiNone
    /\ m_core \in [o_wb_stall : {0, 1}, o_wb_ack : {0}, o_wb_data : {0}]

\* Between two primitives the caller holds no frame of the test bench.
Callable == tb.pc \in {"idle", "checked"}

\* The return of a primitive to its caller ends its frame: the locals, the
\* arguments and the history of the call are gone.
Returned(t) ==
    [ Frame(t, "none", 0, 0, 0, 0, << >>) EXCEPT !.pc = "idle", !.g_bomb0 = FALSE ]

return ==
    /\ tb.pc = "ret"
    /\ tb' = Returned(tb)
    /\ UNCHANGED <<m_core, tw, seq, mn, dut, spi>>

\* One more step of the primitive that is running.
run ==
    /\ Running(tb)
    /\ \E d2 \in DutOutputs :
          LET t2 == Step(tb, m_core, d2) IN
          /\ tb' = t2
          /\ m_core' = IF Running(go(tb, m_core)) THEN d2 ELSE m_core
    /\ UNCHANGED <<tw, seq, mn, dut, spi>>

\* The call of a primitive and its code up to its first TICK().
Call(f) ==
    /\ Callable
    /\ \E d2 \in DutOutputs :
          /\ tb' = Step(f, m_core, d2)
          /\ m_core' = IF Running(go(f, m_core)) THEN d2 ELSE m_core
    /\ UNCHANGED <<tw, seq, mn, dut, spi>>

wb_read ==
    \E a \in Addrs : Call(Frame(tb, "wb_read", a, 0, 0, 0, << >>))

wb_ctrl_read ==
    \E a \in Addrs : Call(Frame(tb, "wb_ctrl_read", a, 0, 0, 0, << >>))

wb_write ==
    \E a \in Addrs, v \in Words : Call(Frame(tb, "wb_write", a, v, 0, 0, << >>))

wb_ctrl_write ==
    \E a \in Addrs, v \in Words : Call(Frame(tb, "wb_ctrl_write", a, v, 0, 0, << >>))

wb_read_burst ==
    \E a \in Addrs, len \in Lens, inc \in Incs :
        Call(Frame(tb, "wb_read_burst", a, 0, len, inc, << >>))

wb_write_burst ==
    \E a \in Addrs, ln \in Lens, inc \in Incs :
        \E buf \in Bufs(ln) : Call(Frame(tb, "wb_write_burst", a, 0, ln, inc, buf))

\* tb->tick() called by the scenario driver between primitives.
main_tick ==
    /\ Callable
    /\ \E d2 \in DutOutputs :
          /\ tb' = tick(tb, d2)
          /\ m_core' = d2
    /\ UNCHANGED <<tw, seq, mn, dut, spi>>

(***************************************************************************)
(* bool bombed(void) const { return m_bomb; } of the bench classes.  They  *)
(* declare a member m_bomb of their own, which hides WBFLASH_TB::m_bomb,   *)
(* which no constructor initialises and which nothing assigns: the call    *)
(* reads an indeterminate bool.  The operator is the set of values the     *)
(* call can return.                                                        *)
(***************************************************************************)
bombed(t) == BOOLEAN

\* if (tb->bombed()) goto test_failure;  in main
main_bombed ==
    /\ tb.pc = "idle"
    /\ \E b \in bombed(tb) :
          tb' = IF b THEN At(tb, "test_failure") ELSE At(tb, "checked")
    /\ UNCHANGED <<m_core, tw, seq, mn, dut, spi>>

Next ==
    \/ run
    \/ return
    \/ wb_read
    \/ wb_ctrl_read
    \/ wb_write
    \/ wb_ctrl_write
    \/ wb_read_burst
    \/ wb_write_burst
    \/ main_tick
    \/ main_bombed

Spec == Init /\ [][Next]_vars

(***************************************************************************)
(* The single-word read alone, with the scheduling the bench has: a        *)
(* primitive that has been called keeps executing.                         *)
(***************************************************************************)
NextRead ==
    \/ run
    \/ return
    \/ wb_read

SpecReadFair == Init /\ [][NextRead]_vars /\ WF_vars(run)

(***************************************************************************)
(* wb_read(a) on tb and wb_write(a, v) on tw, side by side: both benches   *)
(* see the same o_wb_stall, o_wb_ack and o_wb_data on every tick.          *)
(***************************************************************************)
mirror_call ==
    /\ tb.pc = "idle" /\ tw.pc = "idle"
    /\ \E a \in Addrs, v \in Words, d2 \in DutOutputs :
          /\ tb' = Step(Frame(tb, "wb_read", a, 0, 0, 0, << >>), m_core, d2)
          /\ tw' = Step(Frame(tw, "wb_write", a, v, 0, 0, << >>), m_core, d2)
          /\ m_core' = d2
    /\ UNCHANGED <<seq, mn, dut, spi>>

mirror_run ==
    /\ Running(tb) \/ Running(tw)
    /\ \E d2 \in DutOutputs :
          /\ tb' = Step(tb, m_core, d2)
          /\ tw' = Step(tw, m_core, d2)
          /\ m_core' = IF Running(go(tb, m_core)) \/ Running(go(tw, m_core))
                       THEN d2 ELSE m_core
    /\ UNCHANGED <<seq, mn, dut, spi>>

mirror_return ==
    /\ ~Running(tb) /\ ~Running(tw)
    /\ tb.pc = "ret" \/ tw.pc = "ret"
    /\ tb' = IF tb.pc = "ret" THEN Returned(tb) ELSE tb
    /\ tw' = IF tw.pc = "ret" THEN Returned(tw) ELSE tw
    /\ UNCHANGED <<m_core, seq, mn, dut, spi>>

NextMirror ==
    \/ mirror_call
    \/ mirror_run
    \/ mirror_return

SpecMirror == Init /\ [][NextMirror]_vars

(***************************************************************************)
(* A data-port primitive on tb and its control-port twin on tw, side by    *)
(* side against the same DUT outputs.                                      *)
(***************************************************************************)
ports_call_read ==
    /\ tb.pc = "idle" /\ tw.pc = "idle"
    /\ \E a \in Addrs, d2 \in DutOutputs :
          /\ tb' = Step(Frame(tb, "wb_read", a, 0, 0, 0, << >>), m_core, d2)
          /\ tw' = Step(Frame(tw, "wb_ctrl_read", a, 0, 0, 0, << >>), m_core, d2)
          /\ m_core' = d2
    /\ UNCHANGED <<seq, mn, dut, spi>>

ports_call_write ==
    /\ tb.pc = "idle" /\ tw.pc = "idle"
    /\ \E a \in Addrs, v \in Words, d2 \in DutOutputs :
          /\ tb' = Step(Frame(tb, "wb_write", a, v, 0, 0, << >>), m_core, d2)
          /\ tw' = Step(Frame(tw, "wb_ctrl_write", a, v, 0, 0, << >>), m_core, d2)
          /\ m_core' = d2
    /\ UNCHANGED <<seq, mn, dut, spi>>

NextPorts ==
    \/ ports_call_read
    \/ ports_call_write
    \/ mirror_run
    \/ mirror_return

SpecPorts == Init /\ [][NextPorts]_vars

(***************************************************************************)
(* The command sequencer alone: the bench calls flerase, flpage_program    *)
(* and flprogram, one at a time.                                           *)
(***************************************************************************)
flerase ==
    /\ seq.pc = "idle"
    /\ \E b \in Benches, sa \in SectorAddrs :
          seq' = [ SeqIdle EXCEPT !.op = "flerase", !.bench = b, !.sectoraddr = sa,
                                  !.stack = <<"done">>,
                                  !.pc = IF b = "dual" THEN "fe222" ELSE "fe224" ]
    /\ UNCHANGED <<tb, m_core, tw, mn, dut, spi>>

flreadid ==
    /\ seq.pc = "idle"
    /\ \E b \in Benches :
          seq' = [ SeqIdle EXCEPT !.op = "flreadid", !.bench = b,
                                  !.stack = <<"done">>, !.pc = "id187" ]
    /\ UNCHANGED <<tb, m_core, tw, mn, dut, spi>>

flpage_program ==
    /\ seq.pc = "idle"
    /\ \E b \in Benches, addr \in ProgAddrs, ln \in 0..PGLENB :
       \E buf \in ProgBufs(ln) :
          seq' = flpage_program_call(
                    [ SeqIdle EXCEPT !.op = "flpage_program", !.bench = b,
                                     !.buf = buf ],
                    addr, ln, 0, "done")
    /\ UNCHANGED <<tb, m_core, tw, mn, dut, spi>>

flprogram ==
    /\ seq.pc = "idle"
    /\ \E b \in Benches, addr \in ProgAddrs, ln \in 0..MaxProg :
       \E buf \in ProgBufs(ln) :
          seq' = [ SeqIdle EXCEPT !.op = "flprogram", !.bench = b,
                                  !.addr = addr, !.ln = ln, !.buf = buf,
                                  !.start = addr,
                                  !.stack = <<"done">>,
                                  !.pc = IF b = "dual" THEN "fp271" ELSE "fp273" ]
    /\ UNCHANGED <<tb, m_core, tw, mn, dut, spi>>

\* The next statement of the operation that is running.
seq_run ==
    /\ SeqRunning(seq)
    /\ seq' \in seq_go(seq)
    /\ UNCHANGED <<tb, m_core, tw, mn, dut, spi>>

seq_return ==
    /\ seq.pc = "done"
    /\ seq' = SeqIdle
    /\ UNCHANGED <<tb, m_core, tw, mn, dut, spi>>

NextSeq ==
    \/ flerase
    \/ flreadid
    \/ flpage_program
    \/ flprogram
    \/ seq_run
    \/ seq_return

SpecSeq == Init /\ [][NextSeq]_vars

(***************************************************************************)
(* flwait over the bus: each cfg_write is a wb_ctrl_write and each         *)
(* cfg_read a wb_ctrl_read of the test bench, against a flash whose status *)
(* register reads busy for ever.  The accesses are not recorded, so that   *)
(* a wait without end is a cycle of states.                                *)
(***************************************************************************)
\* The DUT answers of a flash that is busy: the data it acknowledges with
\* has bit 0 set; without an acknowledge the data lines hold anything.
BusyOutputs == { d \in DutOutputs : d.o_wb_ack = 1 => d.o_wb_data % 2 = 1 }

\* cfg_write(v) and cfg_read() as calls on the control port.
cfg_write_call(t, v) == Frame(t, "wb_ctrl_write", 0, v, 0, 0, << >>)

cfg_read_call(t) == Frame(t, "wb_ctrl_read", 0, 0, 0, 0, << >>)

\* The control-port call of the statement of flwait at q.pc.
flwait_access(q, t) ==
    CASE q.pc = "fw212" -> cfg_write_call(t, F_RDSR)
      [] q.pc = "fw214" -> cfg_write_call(t, UserByte(q, 0))
      [] q.pc = "fw215" -> cfg_read_call(t)
      [] q.pc = "fw217" -> cfg_write_call(t, F_END)

\* flwait after the call of the statement at q.pc has returned result:
\* lines 212-217, do { ... r = cfg_read(); } while (r & 1);
flwait_after(q, result) ==
    CASE q.pc = "fw212" -> [q EXCEPT !.pc = "fw214"]
      [] q.pc = "fw214" -> [q EXCEPT !.pc = "fw215"]
      [] q.pc = "fw215" ->
            [q EXCEPT !.r = result,
                      !.pc = IF result % 2 = 1 THEN "fw214" ELSE "fw217"]
      [] q.pc = "fw217" -> seq_pop(q)

wait_flwait ==
    /\ seq.pc = "idle" /\ tb.pc = "idle"
    /\ \E b \in Benches :
          seq' = [ SeqIdle EXCEPT !.op = "flwait", !.bench = b,
                                  !.stack = <<"done">>, !.pc = "fw212" ]
    /\ UNCHANGED <<tb, m_core, tw, mn, dut, spi>>

\* The statement of flwait calls the control port: the primitive up to its
\* first TICK().
wait_access ==
    /\ seq.op = "flwait" /\ SeqRunning(seq) /\ tb.pc = "idle"
    /\ \E d2 \in BusyOutputs :
          LET f == flwait_access(seq, tb) IN
          /\ tb' = Step(f, m_core, d2)
          /\ m_core' = IF Running(go(f, m_core)) THEN d2 ELSE m_core
    /\ UNCHANGED <<tw, seq, mn, dut, spi>>

\* One more step of the control-port call.
wait_run ==
    /\ seq.op = "flwait" /\ Running(tb)
    /\ \E d2 \in BusyOutputs :
          /\ tb' = Step(tb, m_core, d2)
          /\ m_core' = IF Running(go(tb, m_core)) THEN d2 ELSE m_core
    /\ UNCHANGED <<tw, seq, mn, dut, spi>>

\* The control-port call returns to flwait.
wait_next ==
    /\ seq.op = "flwait" /\ SeqRunning(seq) /\ tb.pc = "ret"
    /\ seq' = flwait_after(seq, tb.result)
    /\ tb' = Returned(tb)
    /\ UNCHANGED <<m_core, tw, mn, dut, spi>>

\* flwait returns to its caller.
wait_return ==
    /\ seq.op = "flwait" /\ seq.pc = "done"
    /\ seq' = SeqIdle
    /\ UNCHANGED <<tb, m_core, tw, mn, dut, spi>>

NextWait ==
    \/ wait_flwait
    \/ wait_access
    \/ wait_run
    \/ wait_next
    \/ wait_return

\* The bench goes on as long as it can.
SpecWait == Init /\ [][NextWait]_vars /\ WF_vars(NextWait)

(***************************************************************************)
(* The scenario alone: main from its first statement to its end.           *)
(***************************************************************************)
\* The next statement of main.
main_run ==
    /\ mn.pc \notin {"exited", "aborted"}
    /\ mn' \in main_go(mn)
    /\ UNCHANGED <<tb, m_core, tw, seq, dut, spi>>

SpecMain == Init /\ [][main_run]_vars

(***************************************************************************)
(* The data port against the memory: one burst wb_read(a, n, buf) of       *)
(* stride 1, then n single wb_read calls at a, a+4, ..., a+4(n-1); dut     *)
(* keeps the words of both.                                                *)
(***************************************************************************)
\* The step of the bench against the memory u: the code of the primitive up
\* to its next TICK(), and that tick with the memory's answer.
IdealStep(f, d, u) ==
    LET t1 == go(f, d) IN
    IF Running(t1)
    THEN \E x \in Words :
            /\ tb' = tick(Presented(t1, d), IdealOut(u, t1, x))
            /\ m_core' = IdealOut(u, t1, x)
            /\ dut' = [u EXCEPT !.pipe = IdealPipe(u, t1)]
    ELSE /\ tb' = t1
         /\ m_core' = d
         /\ dut' = u

\* wb_read(a, n, buf) with stride 1 against a memory of some latency.
ideal_wb_read_burst ==
    /\ dut.phase \in {"idle", "done"} /\ tb.pc = "idle"
    /\ \E lat \in 0..LatencyMax, a \in Addrs, n \in Lens :
          IdealStep(Frame(tb, "wb_read_burst", a, 0, n, 1, << >>), IdealQuiet,
                    [ DutIdle EXCEPT !.phase = "burst", !.lat = lat,
                                     !.pipe = [i \in 1..lat |-> NoRequest],
                                     !.a = a, !.n = n ])
    /\ UNCHANGED <<tw, seq, mn, spi>>

\* The next of the single reads: wb_read(a + 4k).
ideal_wb_read ==
    /\ dut.phase = "single" /\ tb.pc = "idle"
    /\ Len(dut.single) < dut.n
    /\ IdealStep(Frame(tb, "wb_read", dut.a + 4 * Len(dut.single), 0, 0, 0, << >>),
                 m_core, dut)
    /\ UNCHANGED <<tw, seq, mn, spi>>

\* One more step of the read that is running.
ideal_run ==
    /\ dut.phase \in {"burst", "single"} /\ Running(tb)
    /\ IdealStep(tb, m_core, dut)
    /\ UNCHANGED <<tw, seq, mn, spi>>

\* The read returns: the caller keeps buf, or the word returned.
ideal_return ==
    /\ dut.phase \in {"burst", "single"} /\ tb.pc = "ret"
    /\ dut' = IF dut.phase = "burst"
              THEN [dut EXCEPT !.burst = tb.buf, !.phase = "single"]
              ELSE [dut EXCEPT !.single = Append(@, tb.result)]
    /\ tb' = Returned(tb)
    /\ UNCHANGED <<m_core, tw, seq, mn, spi>>

\* All n single reads have returned.
ideal_done ==
    /\ dut.phase = "single" /\ tb.pc = "idle"
    /\ Len(dut.single) = dut.n
    /\ dut' = [dut EXCEPT !.phase = "done"]
    /\ UNCHANGED <<tb, m_core, tw, seq, mn, spi>>

NextIdeal ==
    \/ ideal_wb_read_burst
    \/ ideal_wb_read
    \/ ideal_run
    \/ ideal_return
    \/ ideal_done

SpecIdeal == Init /\ [][NextIdeal]_vars

(***************************************************************************)
(* The SPI adapter alone: the bench is constructed and ticks.              *)
(***************************************************************************)
\* SPIXPRESS_TB::SPIXPRESS_TB of either bench.
spi_construct ==
    /\ spi.bench = "none"
    /\ \E b \in SpiBenches : spi' = [SpiNone EXCEPT !.bench = b]
    /\ UNCHANGED <<tb, m_core, tw, seq, mn, dut>>

\* tick() of the spixpress bench.
spix_tick ==
    /\ spi.bench = "spixpress"
    /\ \E f \in FlashOutputs, o2 \in SpiOutputs("spixpress") :
          spi' = spi_tick_go(spi, f, o2)
    /\ UNCHANGED <<tb, m_core, tw, seq, mn, dut>>

\* tick() of the dualflexpress bench.
dual_tick ==
    /\ spi.bench = "dualflexpress"
    /\ \E f \in FlashOutputs, o2 \in SpiOutputs("dualflexpress") :
          spi' = spi_tick_go(spi, f, o2)
    /\ UNCHANGED <<tb, m_core, tw, seq, mn, dut>>

NextSpi ==
    \/ spi_construct
    \/ spix_tick
    \/ dual_tick

SpecSpi == Init /\ [][NextSpi]_vars

(***************************************************************************)
(* Properties                                                              *)
(***************************************************************************)
SingleOps == {"wb_read", "wb_ctrl_read", "wb_write", "wb_ctrl_write"}

\* C1: m_bomb starts false and no step of the run, inside or between
\* primitives, takes it from true back to false.
C1_BombMonotonic ==
    /\ ~tb.m_bomb
    /\ [][tb.m_bomb => tb'.m_bomb]_vars

\* A primitive that was called with the flag already latched has run to its return.
C1_Witness == tb.pc = "ret" /\ tb.g_bomb0 /\ tb.m_bomb

\* C2: a primitive one of whose wait loops ran out of its budget (stall still
\* asserted, or acknowledge still missing) returns with m_bomb set.
C2_TimeoutLatchesBomb ==
    (tb.pc = "ret" /\ tb.g_timedout) => tb.m_bomb

\* C3: once a primitive has latched the fault flag, bombed() answers true, so
\* the driver never gets past a bombed() check.
C3_BombedReportsFault ==
    tb.pc = "checked" => ~tb.m_bomb

\* The acknowledges a primitive has observed, and those it waits for.
AcksObserved(t) ==
    CASE t.op \in SingleOps -> t.g_acks
      [] t.op = "wb_read_burst" -> t.rdidx
      [] t.op = "wb_write_burst" -> t.nacks
      [] OTHER -> 0

AcksAwaited(t) == IF t.op \in SingleOps THEN 1 ELSE t.len

\* C4: a primitive returns with the fault flag false only if it observed every
\* acknowledge it was waiting for (1, len or ln of them).
C4_NoFaultOnlyIfAcked ==
    (tb.pc = "ret" /\ ~tb.m_bomb) => AcksObserved(tb) >= AcksAwaited(tb)

\* A burst read of MaxLen words has returned without a fault.
C4_Witness ==
    tb.pc = "ret" /\ ~tb.m_bomb /\ tb.op = "wb_read_burst" /\ tb.len = MaxLen

\* C5: a state with o_wb_ack high and i_wb_cyc low is the aborted one, and the
\* aborted run takes no further step.
C5_AckWithoutCycAborts ==
    /\ []((m_core.o_wb_ack = 1 /\ tb.i_wb_cyc = 0) => tb.pc = "abort")
    /\ [][tb.pc # "abort"]_vars

\* The assertion has fired on a tick inside a primitive.
C5_Witness == tb.pc = "abort" /\ tb.op = "wb_read_burst"

\* C6: a primitive that has been called returns (or aborts) whatever the DUT does.
C6_PrimitiveReturns == Running(tb) ~> ~Running(tb)

\* C7: the order of a single-word wb_read(a).  Every tick it executes is one of:
\* a tick with cycle, data strobe, we=0 and address a>>2 taken because stall
\* was high; the one request tick that follows, taken with stall low unless
\* the stall wait ran out; a tick with cycle high and strobe low taken
\* because acknowledge was still low; the release tick, entered with
\* acknowledge high unless the budget ran out, with the result the o_wb_data
\* of that moment, cycle low, and acknowledge low after it; a tick with cycle
\* low taken because stall was high.  It returns when stall is low.
C7_ReadOrder ==
    [][ tb'.op = "wb_read" =>
          /\ tb'.pc \in {"rd135", "rd137"} =>
                /\ tb'.i_wb_cyc = 1 /\ tb'.i_wb_data_stb = 1 /\ tb'.i_wb_ctrl_stb = 0
                /\ tb'.i_wb_we = 0 /\ tb'.i_wb_addr = tb'.a \div 4
                /\ tb.pc \in {"idle", "checked", "rd135"}
          /\ tb'.pc = "rd135" => m_core.o_wb_stall = 1
          /\ (tb'.pc = "rd137" /\ tb'.errcount <= BOMBCOUNT) => m_core.o_wb_stall = 0
          /\ tb'.pc = "rd143" =>
                /\ tb'.i_wb_cyc = 1 /\ tb'.i_wb_data_stb = 0 /\ tb'.i_wb_ctrl_stb = 0
                /\ m_core.o_wb_ack = 0
                /\ tb.pc \in {"rd137", "rd143"}
          /\ tb'.pc = "rd162" =>
                /\ tb'.i_wb_cyc = 0 /\ tb'.i_wb_data_stb = 0 /\ tb'.i_wb_ctrl_stb = 0
                /\ tb.pc \in {"rd137", "rd143"}
                /\ tb'.result = m_core.o_wb_data
                /\ tb'.errcount < BOMBCOUNT => m_core.o_wb_ack = 1
                /\ m_core'.o_wb_ack = 0
          /\ tb'.pc = "rd170" =>
                /\ tb'.i_wb_cyc = 0 /\ tb'.i_wb_data_stb = 0 /\ tb'.i_wb_ctrl_stb = 0
                /\ m_core.o_wb_stall = 1
                /\ tb.pc \in {"rd162", "rd170"}
          /\ tb'.pc = "ret" =>
                /\ m_core.o_wb_stall = 0
                /\ tb.pc \in {"rd162", "rd170"}
                /\ tb'.result = tb.result
      ]_vars

\* A wb_read that was stalled, saw its acknowledge and latched no fault has returned.
C7_Witness ==
    /\ tb.op = "wb_read" /\ tb.pc = "ret" /\ ~tb.m_bomb
    /\ tb.g_stall >= 1 /\ tb.g_acks = 1

\* tb runs wb_read and tw runs wb_write against the same DUT outputs.
MirrorPair == tb.op = "wb_read" /\ tw.op = "wb_write"

C9_AckWaitHasOwnBudget ==
    (tb.op \in SingleOps /\ tb.pc = "ret" /\ tb.g_ackin = 1 /\ tb.g_wait < BOMBCOUNT)
        => (tb.g_acks = 1 /\ tb.m_bomb = tb.g_bomb0)

\* C10: in the request phase of a burst read the address presented is a>>2
\* plus inc for every tick counted as not stalled, and the strobe is low once
\* len such ticks have been counted.
C10_BurstReadAddress ==
    (tb.op = "wb_read_burst" /\ tb.pc \in {"rdv207", "rdv218", "rdv234"}) =>
        /\ tb.i_wb_addr = tb.a \div 4 + tb.inc * tb.cnt
        /\ tb.pc = "rdv207" => tb.i_wb_data_stb = 1
        /\ tb.pc \in {"rdv218", "rdv234"} =>
              /\ tb.i_wb_data_stb = 0
              /\ ~tb.g_timedout => tb.cnt >= tb.len

\* The sites of the burst read at which buf is still being filled.
BurstReadSites == {"rdv207", "rdv218"}

\* C11: in a burst wb_read cycle is asserted from the request phase until
\* the release; a tick on which acknowledge is observed stores the o_wb_data
\* of that tick in buf at the next free index and no other tick changes buf;
\* never more than len words are collected; and the request and collection
\* ticks together stay within the BOMBCOUNT*len budget.
C11_BurstReadCollects ==
    /\ [](tb.op = "wb_read_burst" =>
            /\ tb.pc \in BurstReadSites => tb.i_wb_cyc = 1
            /\ tb.rdidx <= tb.len
            /\ tb.rdidx <= tb.len => Len(tb.buf) = tb.rdidx
            /\ tb.pc \in BurstReadSites => tb.errcount <= THISBOMBCOUNT(tb))
    /\ [][ (tb.op = "wb_read_burst" /\ tb.pc \in BurstReadSites) =>
              IF m_core.o_wb_ack = 1
              THEN /\ tb'.rdidx = tb.rdidx + 1
                   /\ tb.rdidx < tb.len =>
                         tb'.buf = Append(tb.buf, m_core.o_wb_data)
              ELSE /\ tb'.rdidx = tb.rdidx
                   /\ tb'.buf = tb.buf ]_vars

\* The sites of the burst write at which the bus is held.
BurstWriteSites == {"wrv339", "wrv345", "wrv357"}

\* C12: in a burst wb_write cycle and we are asserted on every tick before
\* the release.  Word k is on i_wb_data, with address (a>>2)+k*inc, on the
\* ticks taken because of stall (at most BOMBCOUNT of them) and on the one
\* posting tick that follows; the posting tick is taken with stall low
\* unless the stall wait ran out, and it moves on to word k+1.  Every
\* acknowledge seen on a stall tick, a posting tick or a wait tick is
\* counted, and a wait tick is taken only while fewer than ln are counted.
C12_BurstWritePosts ==
    /\ [](tb.op = "wb_write_burst" =>
            /\ tb.pc \in BurstWriteSites => tb.i_wb_cyc = 1 /\ tb.i_wb_we = 1
            /\ tb.pc \in {"wrv339", "wrv345"} =>
                  /\ tb.stbcnt < tb.len
                  /\ tb.i_wb_data = tb.buf[tb.stbcnt + 1]
                  /\ tb.i_wb_addr = tb.a \div 4 + tb.stbcnt * tb.inc
            /\ tb.pc = "wrv339" => tb.errcount <= BOMBCOUNT
            /\ tb.pc = "wrv357" =>
                  /\ tb.stbcnt = tb.len
                  /\ tb.i_wb_addr = tb.a \div 4 + tb.len * tb.inc
                  /\ tb.nacks < tb.len)
    /\ [][ /\ (tb'.op = "wb_write_burst" /\ tb'.pc = "wrv339" /\ tb' # tb) =>
                 m_core.o_wb_stall = 1
           /\ (tb'.op = "wb_write_burst" /\ tb'.pc = "wrv345" /\ tb' # tb
                  /\ tb'.errcount <= BOMBCOUNT) => m_core.o_wb_stall = 0
           /\ (tb.op = "wb_write_burst" /\ tb.pc \in BurstWriteSites) =>
                 /\ tb'.nacks = tb.nacks + m_core.o_wb_ack
                 /\ tb'.stbcnt = tb.stbcnt + (IF tb.pc = "wrv345" THEN 1 ELSE 0)
                 /\ tb'.pc = "wrv374" => tb'.i_wb_cyc = 0
         ]_vars

\* A burst write of MaxLen words with stride 2 has returned with all its
\* acknowledges counted and no fault.
C12_Witness ==
    /\ tb.op = "wb_write_burst" /\ tb.pc = "ret"
    /\ tb.len = MaxLen /\ tb.inc = 2 /\ tb.nacks = tb.len /\ ~tb.m_bomb

\* The TICK() site of a control-port primitive that stands where pc stands
\* in its data-port twin.
PortSite(pc) ==
    CASE pc = "rd135" -> "crd83"
      [] pc = "rd137" -> "crd85"
      [] pc = "rd143" -> "crd91"
      [] pc = "rd162" -> "crd110"
      [] pc = "rd170" -> "crd115"
      [] pc = "wr295" -> "cwr253"
      [] pc = "wr297" -> "cwr255"
      [] pc = "wr303" -> "cwr260"
      [] pc = "wr304" -> "cwr261"
      [] pc = "wr315" -> "cwr272"
      [] pc = "wr319" -> "cwr277"
      [] OTHER -> pc

\* tb runs a data-port primitive and tw its control-port twin.
PortPair ==
    \/ tb.op = "wb_read" /\ tw.op = "wb_ctrl_read"
    \/ tb.op = "wb_write" /\ tw.op = "wb_ctrl_write"

\* C13: against the same DUT outputs wb_ctrl_read and wb_read, and
\* wb_ctrl_write and wb_write, stand at matching ticks at every moment, with
\* the same cycle, we, address, data, count, result and fault flag, and with
\* i_wb_ctrl_stb of the one equal to i_wb_data_stb of the other.
C13_CtrlPortTwins ==
    /\ tw.m_bomb = tb.m_bomb
    /\ PortPair =>
          /\ tw.pc = PortSite(tb.pc)
          /\ tw.i_wb_cyc = tb.i_wb_cyc
          /\ tw.i_wb_ctrl_stb = tb.i_wb_data_stb
          /\ tw.i_wb_data_stb = tb.i_wb_ctrl_stb
          /\ tw.i_wb_we = tb.i_wb_we
          /\ tw.i_wb_addr = tb.i_wb_addr
          /\ tw.i_wb_data = tb.i_wb_data
          /\ tw.errcount = tb.errcount
          /\ tw.result = tb.result

\* Both writes have returned, after a stall, without a fault.
C13_Witness ==
    /\ tb.op = "wb_write" /\ tw.op = "wb_ctrl_write"
    /\ tb.pc = "ret" /\ tw.pc = "ret"
    /\ tb.g_stall >= 1 /\ ~tb.m_bomb

\* C14: a primitive that has returned, whether it completed or timed out,
\* has left i_wb_cyc, i_wb_data_stb and i_wb_ctrl_stb deasserted.
C14_ReturnReleasesBus ==
    tb.pc = "ret" =>
        tb.i_wb_cyc = 0 /\ tb.i_wb_data_stb = 0 /\ tb.i_wb_ctrl_stb = 0

\* C15: the data strobe and the control strobe are never asserted together.
C15_OneStrobe == ~(tb.i_wb_data_stb = 1 /\ tb.i_wb_ctrl_stb = 1)

\* A control-port write holds its strobe in a run in which an earlier
\* primitive has latched the fault flag.
C15_Witness ==
    /\ tb.op = "wb_ctrl_write" /\ tb.pc = "cwr253"
    /\ tb.i_wb_ctrl_stb = 1 /\ tb.g_bomb0

\* The page boundaries inside the range [addr, addr+ln): the multiples of
\* the page size that a byte of the range precedes and another follows.
PageBoundaries(addr, ln) ==
    { m \in (addr + 1)..(addr + ln - 1) : m % PGLENB = 0 }

\* The pages that the bytes addr..addr+ln-1 lie in.
PagesTouched(addr, ln) == { PAGEOF(x) : x \in addr..(addr + ln - 1) }

\* A flpage_program call <<start, wlen, off>> stays inside one page.
InOnePage(c) ==
    /\ 1 <= c[2] /\ c[2] <= PGLENB
    /\ PAGEOF(c[1]) = PAGEOF(c[1] + c[2] - 1)

\* flprogram has run to its end.
ProgramDone == seq.op = "flprogram" /\ seq.pc = "done"

\* C16 as claimed: for every addr and ln, flprogram issues one more
\* flpage_program call than [addr, addr+ln) has page boundaries inside, and
\* every call has 1 <= wlen <= page size and lies in one page.
C16_PageSplit ==
    /\ seq.op = "flprogram" =>
          \A k \in 1..Len(seq.calls) : InOnePage(seq.calls[k])
    /\ ProgramDone =>
          Len(seq.calls) = Cardinality(PageBoundaries(seq.addr, seq.ln)) + 1

\* C16 amended: the same for every ln >= 1; for ln = 0 flprogram issues no
\* flpage_program call at all.
C16_PageSplitNonEmpty ==
    /\ seq.op = "flprogram" =>
          \A k \in 1..Len(seq.calls) : InOnePage(seq.calls[k])
    /\ (ProgramDone /\ seq.ln >= 1) =>
          Len(seq.calls) = Cardinality(PageBoundaries(seq.addr, seq.ln)) + 1
    /\ (ProgramDone /\ seq.ln = 0) => Len(seq.calls) = 0

\* A request across two page boundaries, from an unaligned address, is done.
C16_Witness ==
    /\ ProgramDone /\ seq.addr % PGLENB # 0
    /\ Cardinality(PageBoundaries(seq.addr, seq.ln)) = 2
    /\ Len(seq.calls) = 3

\* The request ends on the last byte of a page.
EndsOnPageEnd(addr, ln) == ln >= 1 /\ (addr + ln) % PGLENB = 0

\* C17: when addr+ln is a multiple of the page size, flprogram issues no
\* empty call and none for the following page, its final call ends exactly at
\* addr+ln, and it issues as many calls as addr..addr+ln-1 touches pages.
C17_NoChunkPastPageEnd ==
    (seq.op = "flprogram" /\ EndsOnPageEnd(seq.addr, seq.ln)) =>
        /\ \A k \in 1..Len(seq.calls) :
              /\ seq.calls[k][2] >= 1
              /\ seq.calls[k][1] + seq.calls[k][2] <= seq.addr + seq.ln
        /\ seq.pc = "done" =>
              /\ Len(seq.calls) = Cardinality(PagesTouched(seq.addr, seq.ln))
              /\ seq.calls[Len(seq.calls)][1] + seq.calls[Len(seq.calls)][2]
                    = seq.addr + seq.ln

\* A request from inside one page to the last byte of the next one is done.
C17_Witness ==
    /\ ProgramDone /\ EndsOnPageEnd(seq.addr, seq.ln)
    /\ seq.addr % PGLENB # 0
    /\ Len(seq.calls) = 2

\* The values of the control-port writes of the running routine, in order.
RECURSIVE WritesFrom(_, _)
WritesFrom(log, i) ==
    IF i > Len(log) THEN << >>
    ELSE IF log[i][1] = "w" THEN <<log[i][2]>> \o WritesFrom(log, i + 1)
    ELSE WritesFrom(log, i + 1)

Writes == WritesFrom(seq.log, 1)

\* A write that de-selects the flash: it has the CFG_USER_CS_n bit.
IsDeselect(v) == (v \div CFG_USER_CS_n) % 2 = 1

\* The payload bytes of the PP frames among the writes W from index i on.
\* k is 0 when W[i] is the first write after a de-select, the place of W[i]
\* in its frame when that frame opened with F_PP, and -1 in any other frame.
RECURSIVE PayloadFrom(_, _, _)
PayloadFrom(W, i, k) ==
    IF i > Len(W) THEN << >>
    ELSE IF IsDeselect(W[i]) THEN PayloadFrom(W, i + 1, 0)
    ELSE IF k = 0 THEN PayloadFrom(W, i + 1, IF W[i] = F_PP THEN 1 ELSE -1)
    ELSE IF k = -1 THEN PayloadFrom(W, i + 1, -1)
    ELSE IF k <= 3 THEN PayloadFrom(W, i + 1, k + 1)
    ELSE <<W[i] % 256>> \o PayloadFrom(W, i + 1, k + 1)

\* C18: flprogram's flpage_program calls go up through the range with no gap
\* and no overlap: the first starts at addr, each later one starts where the
\* one before ended, the last ends at addr+ln, each is given the buffer at
\* offset start-addr, and the payload bytes written, one call after the
\* other, are the requested bytes in order.
C18_CallsTileTheRange ==
    seq.op = "flprogram" =>
        /\ \A k \in 1..Len(seq.calls) :
              /\ seq.calls[k][1] =
                    IF k = 1 THEN seq.addr
                    ELSE seq.calls[k - 1][1] + seq.calls[k - 1][2]
              /\ k > 1 => seq.calls[k][1] > seq.calls[k - 1][1]
              /\ seq.calls[k][3] = seq.calls[k][1] - seq.addr
        /\ seq.pc = "done" =>
              /\ Len(seq.calls) >= 1 =>
                    seq.calls[Len(seq.calls)][1] + seq.calls[Len(seq.calls)][2]
                        = seq.addr + seq.ln
              /\ PayloadFrom(Writes, 1, 0)
                    = [i \in 1..seq.ln |-> seq.buf[i] % 256]

\* A request of distinct bytes over three pages, from an unaligned address,
\* is done.
C18_Witness ==
    /\ ProgramDone /\ seq.addr % PGLENB # 0
    /\ Len(seq.calls) = 3
    /\ seq.ln >= 2 /\ seq.buf[1] # seq.buf[2]

\* The command frames of the running routine: the control-port accesses
\* log[i..], cut at the de-select writes; cur is the frame that is open at i.
\* A de-select that follows another one opens no frame.
RECURSIVE FramesFrom(_, _, _)
FramesFrom(log, i, cur) ==
    IF i > Len(log)
    THEN IF cur = << >> THEN << >> ELSE <<cur>>
    ELSE IF log[i][1] = "w" /\ IsDeselect(log[i][2])
    THEN (IF cur = << >> THEN << >> ELSE <<cur>>) \o FramesFrom(log, i + 1, << >>)
    ELSE FramesFrom(log, i + 1, Append(cur, log[i]))

Frames == FramesFrom(seq.log, 1, << >>)

\* The opcode of a frame is its first write.
Opcode(f) == IF f[1][1] = "w" THEN f[1][2] ELSE -1

\* A status poll in the frame returned a value with the busy bit clear.
HasReadyPoll(f) == \E j \in 1..Len(f) : f[j][1] = "r" /\ f[j][2] % 2 = 0

\* The routines whose control-port writes the ordering rules are about.
Writers == {"flerase", "flpage_program", "flprogram"}

\* C19: in the control-port writes of flerase, flpage_program and flprogram,
\* in both benches, the frame before every SE or PP frame is a WREN opcode
\* alone, and every opcode written after an SE or PP frame is RDSR until a
\* status poll has returned a value with bit 0 clear.
C19_WrenBeforeBusyAfter ==
    seq.op \in Writers =>
        LET F == Frames
            ready == [n \in 1..Len(F) |-> HasReadyPoll(F[n])]
            op == [n \in 1..Len(F) |-> Opcode(F[n])]
        IN  \A k \in 1..Len(F) :
                op[k] \in {F_SE, F_PP} =>
                    /\ k > 1
                    /\ F[k - 1] = << <<"w", F_WREN>> >>
                    /\ \A m \in (k + 1)..Len(F) :
                          (\A n \in (k + 1)..(m - 1) : ~ready[n])
                              => op[m] = F_RDSR

\* A program of two pages in the dual bench is done, the flash was busy at a
\* poll, and a payload byte has the value of the WREN opcode.
C19_Witness ==
    /\ ProgramDone /\ seq.bench = "dual"
    /\ Len(seq.calls) = 2 /\ seq.busy >= 1
    /\ \E i \in 1..seq.ln : seq.buf[i] = 6
    /\ LET F == Frames IN \E k \in 1..Len(F) : Opcode(F[k]) = F_PP

\* The values the status polls of the running routine returned, in order.
RECURSIVE ReadsFrom(_, _)
ReadsFrom(log, i) ==
    IF i > Len(log) THEN << >>
    ELSE IF log[i][1] = "r" THEN <<log[i][2]>> \o ReadsFrom(log, i + 1)
    ELSE ReadsFrom(log, i + 1)

IsPrefix(a, b) == Len(a) <= Len(b) /\ SubSeq(b, 1, Len(a)) = a

\* The steps of the erase of sector sa in the dual bench, as writes: the
\* flash is taken offline, the write latch is set, the SE frame is written,
\* the status is polled n times, the flash is put back online.
EraseSteps(sa, n) ==
    <<F_END, F_RESET, F_RESET, F_END>>
    \o <<F_END, F_WREN, F_END>>
    \o <<F_SE, CFG_USERMODE + ((sa \div 65536) % 256),
               CFG_USERMODE + ((sa \div 256) % 256),
               CFG_USERMODE + (sa % 256), F_END>>
    \o <<F_RDSR>> \o [j \in 1..n |-> CFG_USERMODE] \o <<F_END>>
    \o <<DUAL_IO_READ,
         CFG_USERMODE + CFG_DSPEED + CFG_WEDIR,
         CFG_USERMODE + CFG_DSPEED + CFG_WEDIR,
         CFG_USERMODE + CFG_DSPEED + CFG_WEDIR,
         CFG_USERMODE + CFG_DSPEED + CFG_WEDIR + 160,
         CFG_USERMODE + CFG_DSPEED, 0>>

\* C20: in the dual bench the control-port writes of flerase(sectoraddr) are,
\* in this order and with no other write: take_offline (de-select, reset,
\* reset, de-select); de-select, WREN, de-select; the SE opcode, three
\* address bytes, de-select; the status poll until the flash is ready; the
\* writes of place_online.
C20_EraseOrder ==
    (seq.op = "flerase" /\ seq.bench = "dual") =>
        LET W == Writes
            R == ReadsFrom(seq.log, 1)
        IN  /\ \E n \in 1..(MaxBusy + 1) :
                  IsPrefix(W, EraseSteps(seq.sectoraddr, n))
            /\ \A i \in 1..Len(seq.log) :
                  seq.log[i][1] = "r" =>
                      i > 1 /\ seq.log[i - 1] = <<"w", CFG_USERMODE>>
            /\ \A j \in 1..(Len(R) - 1) : R[j] % 2 = 1
            /\ seq.pc = "done" =>
                  /\ Len(R) >= 1 /\ R[Len(R)] % 2 = 0
                  /\ W = EraseSteps(seq.sectoraddr, Len(R))

\* An erase in the dual bench is done, of a sector whose three address bytes
\* differ, after the flash was busy at a poll.
C20_Witness ==
    /\ seq.op = "flerase" /\ seq.bench = "dual" /\ seq.pc = "done"
    /\ seq.sectoraddr = 66051
    /\ seq.busy >= 1

\* The writes of take_offline, of a wait of n polls, and of place_online.
TakeOfflineWrites == <<F_END, F_RESET, F_RESET, F_END>>

WaitWrites(n) == <<F_RDSR>> \o [j \in 1..n |-> CFG_USERMODE] \o <<F_END>>

PlaceOnlineWrites ==
    <<DUAL_IO_READ,
      CFG_USERMODE + CFG_DSPEED + CFG_WEDIR,
      CFG_USERMODE + CFG_DSPEED + CFG_WEDIR,
      CFG_USERMODE + CFG_DSPEED + CFG_WEDIR,
      CFG_USERMODE + CFG_DSPEED + CFG_WEDIR + 160,
      CFG_USERMODE + CFG_DSPEED, 0>>

\* The opcodes of the frames of n page programs: each waits, sets the write
\* latch, programs and waits.
RECURSIVE PageOpcodes(_)
PageOpcodes(n) ==
    IF n = 0 THEN << >>
    ELSE <<F_RDSR, F_WREN, F_PP, F_RDSR>> \o PageOpcodes(n - 1)

IsSuffix(a, b) ==
    Len(a) <= Len(b) /\ SubSeq(b, Len(b) - Len(a) + 1, Len(b)) = a

\* C21: in the dual bench flprogram, for every ln and for ln = 0 too, writes
\* all of take_offline before the first flpage_program and writes no reset
\* later; after the last flpage_program it makes one more wait for the flash
\* and then the writes of place_online, and nothing else.
C21_ProgramBracket ==
    (seq.op = "flprogram" /\ seq.bench = "dual") =>
        LET W == Writes
            F == Frames
        IN  /\ IsPrefix(W, TakeOfflineWrites) \/ IsPrefix(TakeOfflineWrites, W)
            /\ Len(seq.calls) >= 1 => IsPrefix(TakeOfflineWrites, W)
            /\ \A k \in 2..Len(F) : Opcode(F[k]) # F_RESET
            /\ seq.pc = "done" =>
                  /\ [k \in 1..Len(F) |-> Opcode(F[k])]
                        = <<F_RESET>> \o PageOpcodes(Len(seq.calls))
                             \o <<F_RDSR, DUAL_IO_READ>>
                  /\ \E n \in 1..(MaxBusy + 1) :
                        IsSuffix(<<F_END>> \o WaitWrites(n) \o PlaceOnlineWrites, W)

\* A program over two pages is done in the dual bench, after the flash was
\* busy at a poll.
C21_Witness ==
    /\ ProgramDone /\ seq.bench = "dual"
    /\ Len(seq.calls) = 2 /\ seq.busy >= 1
    /\ Len(Writes) > 4 + 3 + 7

\* The address a frame is for: the sector of the erase, or the start of the
\* flpage_program call that wrote the frame, the k-th PP frame being that of
\* the k-th call.
FrameAddress(F, k) ==
    IF Opcode(F[k]) = F_SE THEN seq.sectoraddr
    ELSE seq.calls[Cardinality({ j \in 1..k : Opcode(F[j]) = F_PP })][1]

\* C23: the three writes after an SE or PP opcode carry in their low 8 bits
\* bits 23..16 of the address, then bits 15..8, then bits 7..0.
C23_AddressMsbFirst ==
    seq.op \in Writers =>
        LET F == Frames IN
        \A k \in 1..Len(F) :
            Opcode(F[k]) \in {F_SE, F_PP} =>
                LET A == FrameAddress(F, k) % 16777216 IN
                /\ Len(F[k]) >= 2 =>
                      F[k][2][1] = "w" /\ F[k][2][2] % 256 = A \div 65536
                /\ Len(F[k]) >= 3 =>
                      F[k][3][1] = "w" /\ F[k][3][2] % 256 = (A % 65536) \div 256
                /\ Len(F[k]) >= 4 =>
                      F[k][4][1] = "w" /\ F[k][4][2] % 256 = A % 256

\* A page program at 0x010203 in the single-line bench has written its PP
\* frame.
C23_Witness ==
    /\ seq.op = "flprogram" /\ seq.bench = "spix" /\ seq.addr = 66051
    /\ LET F == Frames IN
       \E k \in 1..Len(F) : Opcode(F[k]) = F_PP /\ Len(F[k]) >= 5

\* The dummy word flreadid and flwait write before a read.
Dummy == IF seq.bench = "dual" THEN CFG_USERMODE ELSE 0

\* The control-port accesses of flreadid when its reads return v.
ReadIdSteps(v) ==
    << <<"w", F_READID>>,
       <<"w", Dummy>>, <<"r", v[1]>>, <<"w", Dummy>>, <<"r", v[2]>>,
       <<"w", Dummy>>, <<"r", v[3]>>, <<"w", Dummy>>, <<"r", v[4]>>,
       <<"w", F_END>> >>

\* C24: flreadid writes the READ-ID opcode, then four times a dummy word
\* followed by one read, then a de-select, and nothing else; it returns
\* (b0<<24)|(b1<<16)|(b2<<8)|b3, bi being the low byte of the i-th read.
C24_ReadIdPacksBigEndian ==
    seq.op = "flreadid" =>
        /\ \E v \in [1..4 -> IdWords] : IsPrefix(seq.log, ReadIdSteps(v))
        /\ seq.pc = "done" =>
              LET R == ReadsFrom(seq.log, 1) IN
              /\ Len(seq.log) = 10
              /\ seq.r = (R[1] % 256) * 16777216 + (R[2] % 256) * 65536
                            + (R[3] % 256) * 256 + (R[4] % 256)

\* flreadid has returned after reads whose low bytes are 1, 2, 0, 1, the
\* second from a word with higher bits set.
C24_Witness ==
    /\ seq.op = "flreadid" /\ seq.pc = "done"
    /\ ReadsFrom(seq.log, 1) = <<1, 258, 0, 1>>
    /\ seq.r = 16908289

\* C22: with a flash that reads busy for ever, a flwait that has started
\* comes to a latched fault of the test bench (or to an end: it returns, or
\* an assertion stops the bench).
C22_BusyForeverBombs ==
    (seq.op = "flwait" /\ seq.pc = "fw212")
        ~> (tb.m_bomb \/ tb.pc = "abort" \/ seq.pc = "done")

\* C25: a run that has ended has printed "SUCCESS!!" and left with status 0
\* after every check passed and with no fault latched in the transactor, or
\* it has printed "TEST FAILED" and left with a status other than 0; a run
\* in which a check failed or a fault was latched has not ended otherwise
\* than by "TEST FAILED".
C25_TwoEndings ==
    mn.pc \in {"exited", "aborted"} =>
        \/ /\ mn.out = "SUCCESS!!" /\ mn.status = EXIT_SUCCESS
           /\ ~mn.failed /\ ~mn.fault
        \/ /\ mn.out = "TEST FAILED" /\ mn.status # EXIT_SUCCESS


\* The burst filled buf[0..n-1] with the words the n single reads returned.
SameWords ==
    /\ Len(dut.burst) = dut.n
    /\ \A k \in 1..dut.n : dut.burst[k] = dut.single[k]

\* C26: against a memory that never stalls, accepts a request on every strobe
\* tick and acknowledges in order with the word at the requested address, a
\* burst wb_read(a, n, buf) of stride 1 fills buf[0..n-1] with the same words
\* that n single wb_read calls at a, a+4, ..., a+4(n-1) return -- whatever the
\* number of ticks the memory takes to acknowledge.
C26_SameWordsAnyLatency == dut.phase = "done" => SameWords

\* C26: the same, for a memory that acknowledges each request no more than
\* BOMBCOUNT ticks after the tick that accepted it.
C26_SameWords == (dut.phase = "done" /\ dut.lat <= BOMBCOUNT) => SameWords

C26_Witness ==
    /\ dut.phase = "done" /\ dut.lat = BOMBCOUNT
    /\ dut.a = 7 /\ dut.n = MaxLen
    /\ dut.single = [k \in 1..MaxLen |-> Mem(k)]
    /\ dut.burst = dut.single


\* The clock levels of the flash model's calls of the last tick, in order.
ClockLevels == [i \in 1..Len(spi.calls) |-> spi.calls[i][1]]

\* C27: on every tick of either bench the flash model is called with clock
\* level 1 exactly once, as the last call, and with clock level 0 right before
\* it exactly when the SCK the adapter sampled on the tick before was high;
\* every call carries the data pins as the tick found them,
\* and the SCK remembered for the next tick is the one the tick found.
C27_ShiftClocking ==
    spi.ticks >= 1 =>
        /\ ClockLevels = IF spi.g_prev = 1 THEN <<0, 1>> ELSE <<1>>
        /\ \A i \in 1..Len(spi.calls) : spi.calls[i][2] = spi.g_outs.dat
        /\ spi.lastsck = spi.g_outs.sck

C27_Witness ==
    /\ spi.bench = "spixpress" /\ spi.ticks = 2
    /\ spi.g_prev = 0 /\ spi.g_outs.sck = 1
    /\ spi.calls = <<<<1, 1>>>>
    /\ spi.lastsck = 1

\* C28: in the dualflexpress bench the value driven into i_dspi_dat on a tick
\* is the flash model's output when bits 1 and 0 of o_dspi_mod are both set,
\* the DUT's own o_dspi_dat when bit 1 is set and bit 0 clear, and bit 1 of
\* the flash model's output with bit 0 of o_dspi_dat when bit 1 is clear.
C28_LineRouting ==
    (spi.bench = "dualflexpress" /\ spi.ticks >= 1) =>
        LET mod == spi.g_outs.mod
            dat == spi.g_outs.dat
            f == spi.g_flash
        IN  spi.i_dat = CASE mod = 3 -> f
                          [] mod = 2 -> dat
                          [] OTHER -> 2 * ((f \div 2) % 2) + (dat % 2)

C28_Witness ==
    /\ spi.bench = "dualflexpress" /\ spi.ticks >= 1
    /\ spi.g_outs.mod = 1 /\ spi.g_outs.dat = 2 /\ spi.g_flash = 3
    /\ spi.i_dat = 2


\* The tick sites of the single-word primitives: inside the stall wait, and
\* the TICK() that follows it.
StallPcs == {"rd135", "crd83", "wr295", "cwr253"}
RequestPcs == {"rd137", "crd85", "wr297", "cwr255"}

\* C29: a single-word read or write, on either port, presents exactly one
\* request the DUT can accept.  The ticks on which its strobe is high while
\* stall was low before the tick number 0 during the stall wait; after the
\* tick that follows the wait they number 1 when the wait ended with stall
\* low and 0 when it ran out of its budget with stall still high; no later
\* tick of the call adds one, so the number is never 2 or more.
C29_OneRequest ==
    /\ [](tb.op \in SingleOps =>
            /\ tb.g_req <= 1
            /\ tb.pc \in StallPcs => tb.g_req = 0
            /\ tb.pc \in RequestPcs => tb.g_req = (IF tb.g_timedout THEN 0 ELSE 1))
    /\ [][(tb.op \in SingleOps /\ tb'.op = tb.op /\ tb.pc \notin StallPcs)
              => tb'.g_req = tb.g_req]_vars

C29_Witness ==
    /\ tb.op = "wb_ctrl_write" /\ tb.pc = "ret"
    /\ tb.g_stall = BOMBCOUNT - 1 /\ ~tb.g_timedout
    /\ tb.g_req = 1


\* C30: strobe implies cycle.  On every tick executed by a primitive, if
\* i_wb_data_stb or i_wb_ctrl_stb is asserted then i_wb_cyc is asserted too.
C30_StrobeImpliesCycle ==
    (tb.op # "none" /\ (Running(tb) \/ tb.pc = "abort")) =>
        ((tb.i_wb_data_stb = 1 \/ tb.i_wb_ctrl_stb = 1) => tb.i_wb_cyc = 1)


\* C31: no spurious fault on a single-word operation.  A wb_read,
\* wb_ctrl_read, wb_write or wb_ctrl_write whose acknowledge was observed by
\* the test of its wait loop returns with m_bomb as it found it, whatever the
\* tick on which the acknowledge arrived.
C31_NoSpuriousFault ==
    (tb.op \in SingleOps /\ tb.pc = "ret" /\ tb.g_acks = 1)
        => tb.m_bomb = tb.g_bomb0


\* C32: a burst wb_write(a, ln, buf) presents exactly ln requests the DUT can
\* accept.  The data strobe is low on every tick after the ln-th word has been
\* posted (the ticks of the wait for the acknowledges, of the release and of
\* the drain), and a call that returns with no wait timed out has had ln ticks
\* with the strobe high while stall was low before the tick.
C32_BurstWriteRequests ==
    tb.op = "wb_write_burst" =>
        /\ tb.pc \in {"wrv357", "wrv374", "wrv378"} => tb.i_wb_data_stb = 0
        /\ (tb.pc = "ret" /\ ~tb.g_timedout) => tb.g_req = tb.len


\* C33: a burst wb_read(a, len, buf) that has returned latched the fault flag
\* only if it collected fewer than len words, and, when the DUT acknowledged
\* no more often than the bench presented requests it could accept, stored no
\* more than len words; so for len = 0 it stored nothing and latched no fault.
C33_BurstReadFault ==
    (tb.op = "wb_read_burst" /\ tb.pc = "ret") =>
        /\ (tb.m_bomb /\ ~tb.g_bomb0) => tb.rdidx < tb.len
        /\ tb.rdidx <= tb.g_req => tb.rdidx <= tb.len
        /\ tb.len = 0 => (tb.rdidx = 0 /\ tb.m_bomb = tb.g_bomb0)

=============================================================================
